---- MODULE Spec2Model ----
(***************************************************************************)
(* Verification model of the yield cache of ra4_stats                      *)
(* (src/src/yield_manager.cpp) and of the objects it is keyed on           *)
(* (src/inc/bin.hpp, src/inc/cut.hpp).                                     *)
(*                                                                         *)
(* Real numbers are modelled as exact rationals <<num, den>>, so that the  *)
(* luminosity factors local_lumi_/store_lumi_ and store_lumi_/local_lumi_  *)
(* are computed, never assumed to cancel.                                  *)
(***************************************************************************)
EXTENDS Integers, Sequences, FiniteSets, TLC

VARIABLES
  yields_,      \* the cache: storage slot -> (key object -> GammaParams)
  local_lumi_,  \* YieldManager instance -> its luminosity
  process,      \* the Process the keys of this run refer to (immutable)
  dataset,      \* what the event source of that process answers (immutable)
  nqueries,     \* logical key -> number of Process::GetYield calls made for it
  computed_by,  \* logical key -> the instances that ran the computation for it
  last,         \* record of the most recent public call
  cut_idents,   \* the identifiers a selection string is written with
  mettru_s,     \* the string mettru_s of ComputeYield
  mettru_pc,    \* "idle", "start" (string not yet rewritten) or "done"
  key_first,    \* the key object of the first of two yield requests
  key_second,   \* the key object of the second request
  key_map,      \* the cache the two requests go to
  key_hit,      \* whether the second request found an entry
  key_pc,       \* "idle", "start", "first" (one request made) or "second"
  blocks_,              \* WorkspaceGenerator: the blocks of bins
  systematics_file_,    \* the systematics file: its lines, <<>> for no file
  dilep_source,         \* what the event source answers for the dilepton bins
  bin_source,           \* what it answers for the bins: bin -> process -> yield
  sig_strength_,        \* the signal strength injected into blind bins
  baseline_,            \* the baseline selection of the generator (const)
  w_,                   \* the workspace: its name and its factory calls
  poi_, observables_, nuisances_, systematics_,   \* sets of names
  free_systematics_,    \* the records read from the systematics file
  luminosity_, print_level_, do_systematics_, do_dilepton_,
  do_mc_kappa_correction_, toy_num_, w_is_valid_,
  wg_last,              \* record of the most recent call on the generator
  wg_calls              \* the number of calls made on the generator

ymvars == <<yields_, local_lumi_, process, dataset, nqueries, computed_by, last>>
strvars == <<cut_idents, mettru_s, mettru_pc>>
keyvars == <<key_first, key_second, key_map, key_hit, key_pc>>
\* everything that is not state of the yield manager
wgvars ==
  <<blocks_, systematics_file_, dilep_source, bin_source, sig_strength_,
    baseline_, w_,
    poi_, observables_,
    nuisances_, systematics_, free_systematics_, luminosity_, print_level_,
    do_systematics_, do_dilepton_, do_mc_kappa_correction_, toy_num_,
    w_is_valid_, wg_last, wg_calls>>
restvars == <<strvars, keyvars, wgvars>>
vars == <<ymvars, restvars>>

---------------------------------------------------------------------------
(* Bounds of the model *)

NumManagers == 2
MaxLumi == 4
MaxIdents == 3
MaxCalls == 4

(* Program constants *)

store_lumi_ == 4
NumCuts == 5

---------------------------------------------------------------------------
(* Exact rational arithmetic *)

Abs(i) == IF i < 0 THEN -i ELSE i

RECURSIVE GCD(_, _)
GCD(a, b) == IF b = 0 THEN a ELSE GCD(b, a % b)

Reduced(n, d, g) == <<n \div g, d \div g>>

Norm(n, d) ==
  IF n = 0 THEN <<0, 1>>
  ELSE IF d < 0 THEN Reduced(-n, -d, GCD(Abs(n), Abs(d)))
  ELSE Reduced(n, d, GCD(Abs(n), Abs(d)))

Rat(i) == <<i, 1>>
RMul(a, b) == Norm(a[1] * b[1], a[2] * b[2])
RDiv(a, b) == Norm(a[1] * b[2], a[2] * b[1])
RAdd(a, b) == Norm(a[1] * b[2] + b[1] * a[2], a[2] * b[2])
RPos(a) == a[1] > 0
RLeqZero(a) == a[1] <= 0

---------------------------------------------------------------------------
(* Strings as sequences of characters *)

Contains(str, pat) ==
  \E i \in 0..(Len(str) - Len(pat)) : SubSeq(str, i + 1, i + Len(pat)) = pat

RECURSIVE ReplaceAll(_, _, _)
ReplaceAll(str, orig, rep) ==
  IF Len(str) < Len(orig) THEN str
  ELSE IF SubSeq(str, 1, Len(orig)) = orig
       THEN rep \o ReplaceAll(SubSeq(str, Len(orig) + 1, Len(str)), orig, rep)
       ELSE <<Head(str)>> \o ReplaceAll(Tail(str), orig, rep)

sig == <<"s", "i", "g">>
met == <<"m", "e", "t">>
met_tru == <<"m", "e", "t", "_", "t", "r", "u">>
met_calo == <<"m", "e", "t", "_", "c", "a", "l", "o">>
XXXYYYZZZ_calo == <<"X", "X", "X", "Y", "Y", "Y", "Z", "Z", "Z", "_", "c", "a", "l", "o">>
met_phi == <<"m", "e", "t", "_", "p", "h", "i">>
ht == <<"h", "t">>

\* the three ReplaceAll calls that turn the selection string into mettru_s
MetTruString(this_cut_s) ==
  ReplaceAll(ReplaceAll(ReplaceAll(this_cut_s, met_calo, XXXYYYZZZ_calo),
                        met, met_tru),
             XXXYYYZZZ_calo, met_calo)

\* a selection string: identifiers joined by &&
RECURSIVE JoinIdents(_)
JoinIdents(idents) ==
  IF idents = <<>> THEN <<>>
  ELSE IF Len(idents) = 1 THEN idents[1]
  ELSE idents[1] \o <<"&", "&">> \o JoinIdents(Tail(idents))

Identifiers == {met, met_calo, met_tru, met_phi, ht}
IdentSeqs == UNION {[1..n -> Identifiers] : n \in 1..MaxIdents}

---------------------------------------------------------------------------
(* GammaParams *)

GammaParams(n, w) == [n_effective_ |-> n, weight_ |-> w]

SetNEffectiveAndWeight(n, w) == GammaParams(n, w)

DefaultGammaParams == GammaParams(Rat(0), Rat(0))

Yield(gp) == RMul(gp.n_effective_, gp.weight_)

\* factor * gps : the weight is rescaled, the effective count is kept
Scale(factor, gp) == GammaParams(gp.n_effective_, RMul(factor, gp.weight_))

\* the sum of a and b, y being the summed yield and d the summed yield
\* times weight
AddMoments(a, b, y, d) ==
  IF RPos(d)
  THEN GammaParams(RDiv(RMul(y, y), d), RDiv(d, y))
  ELSE GammaParams(Rat(0), RAdd(a.weight_, b.weight_))

\* a += b
Add(a, b) ==
  AddMoments(a, b, RAdd(Yield(a), Yield(b)),
             RAdd(RMul(Yield(a), a.weight_), RMul(Yield(b), b.weight_)))

---------------------------------------------------------------------------
(* Cut: a selection expression.  weight is the luminosity factor of the    *)
(* weight string (0 when there is none), conj the conjuncts in order, and  *)
(* met the name under which the missing-energy variable appears.           *)

Atom(text, on_met) == [text |-> text, on_met |-> on_met]

CutOne == [weight |-> 0, conj |-> <<>>, met |-> "met"]
CutOf(atom) == [weight |-> 0, conj |-> <<atom>>, met |-> "met"]
LumiWeightCut(lumi) == [weight |-> lumi, conj |-> <<>>, met |-> "met"]

\* a && b
CutAnd(a, b) == [weight |-> 0, conj |-> a.conj \o b.conj, met |-> "met"]
\* a * b, with a a weight
CutTimes(a, b) == [weight |-> a.weight, conj |-> b.conj, met |-> "met"]

HasAtom(cut, text) == \E i \in 1..Len(cut.conj) : cut.conj[i].text = text
OnMet(cut) == \E i \in 1..Len(cut.conj) : cut.conj[i].on_met

---------------------------------------------------------------------------
(* Bin, Process, YieldKey *)

BinCuts == {"c1"}

Bin(name, cut) == [name_ |-> name, cut_ |-> cut, systematics_ |-> <<>>]

\* two bin objects that differ in name only
Bins == {Bin("r1", "c1"), Bin("r1_copy", "c1")}

\* variant: the bin name takes part in the comparison
BinComparisonTupleWithName(bin) == <<bin.name_, bin.cut_, bin.systematics_>>

BinComparisonTuple(bin) == <<bin.cut_, bin.systematics_>>

ProcessNames == {<<"t", "t">>, <<"s", "i", "g">>}

Processes ==
  {p \in [name_ : ProcessNames, is_data_ : BOOLEAN, is_signal_ : BOOLEAN,
          count_zeros_ : BOOLEAN, entries_ : {0, 1}] :
     ~(p.is_data_ /\ p.is_signal_)}

ProcessCut == CutOf(Atom("pcut", FALSE))
Baseline == CutOf(Atom("base", TRUE))
BinCutOf(bin) == CutOf(Atom(bin.cut_, TRUE))

YieldKey(bin, proc, cut) == <<bin, proc, cut>>
GetBin(key) == key[1]
GetProcess(key) == key[2]
GetCut(key) == key[3]

Keys == {YieldKey(b, process, Baseline) : b \in Bins}

\* variant: the cut of the key takes no part in the comparison
KeyComparisonTupleNoCut(key) ==
  <<BinComparisonTuple(GetBin(key)), GetProcess(key)>>

KeyComparisonTuple(key) ==
  <<BinComparisonTuple(GetBin(key)), GetProcess(key), GetCut(key)>>

\* the logical (bin cut, systematics, process, cut) combination a key stands for
KeyClass(key) == <<key[1].cut_, key[1].systematics_, key[2], key[3]>>
KeyClasses == {KeyClass(k) : k \in Keys}

---------------------------------------------------------------------------
(* The event source behind Process::GetYield.  A data set says for which   *)
(* selections events survive: bins (tru_bins) are the bin cuts with events *)
(* under the full nominal (truth) selection, hit is the loosest-first      *)
(* level >= 1 from which on the nominal selection keeps events, tru_hit1   *)
(* says whether the truth selection without the bin cut keeps events.      *)

Datasets ==
  {d \in [bins : {{}, BinCuts}, hit : 1..NumCuts,
          tru_bins : {{}, BinCuts}, tru_hit1 : BOOLEAN] :
     /\ d.bins # {} => d.hit = 1
     /\ d.tru_bins # {} => d.tru_hit1}

Looseness(cut) ==
  IF \E c \in BinCuts : HasAtom(cut, c) THEN 0
  ELSE IF HasAtom(cut, "base") THEN 1
  ELSE IF HasAtom(cut, "pcut") THEN 2
  ELSE IF cut.weight # 0 THEN 3
  ELSE 4

Survives(cut) ==
  LET l == Looseness(cut)
  IN IF cut.met = "met"
     THEN IF l = 0 THEN \E c \in dataset.bins : HasAtom(cut, c)
                   ELSE l >= dataset.hit
     ELSE IF l = 0 THEN \E c \in dataset.tru_bins : HasAtom(cut, c)
                   ELSE dataset.tru_hit1

\* Process::GetYield(cut)
ProcessGetYield(cut) ==
  LET l == Looseness(cut)
      n == IF cut.met = "met" THEN l + 1 ELSE l + 2
      w == IF cut.met = "met" THEN l + 1 ELSE l + 3
  IN IF Survives(cut)
     THEN GammaParams(Rat(n), Rat(IF cut.weight # 0 THEN cut.weight * w ELSE w))
     ELSE GammaParams(Rat(0), Rat(0))

---------------------------------------------------------------------------
(* YieldManager *)

Managers == 1..NumManagers
\* the instance that is the static yields_ of the workspace generators
SharedManager == 1
Lumis == (store_lumi_ - 1)..MaxLumi

\* variant: one map per instance
StoragePerInstance(m) == m

\* yields_ is a static member: every instance uses the one map
Storage(m) == 0
Slots == {0} \cup Managers

\* std::map<YieldKey, GammaParams>: keys that compare equivalent are one
\* entry, so the map is a function on comparison tuples
EmptyMap == [t \in {} |-> DefaultGammaParams]

\* variant: the lookup never finds the key
HaveYieldNever(map, key) == FALSE

HaveYield(map, key) == KeyComparisonTuple(key) \in DOMAIN map
At(map, key) == map[KeyComparisonTuple(key)]
Put(map, key, gp) ==
  [t \in DOMAIN map \cup {KeyComparisonTuple(key)} |->
     IF t = KeyComparisonTuple(key) THEN gp ELSE map[t]]

\* variant: the factor of GetYield without the data exception
ReturnFactorNoDataCheck(lumi, proc) == RDiv(Rat(lumi), Rat(store_lumi_))

\* the factor of GetYield
ReturnFactor(lumi, proc) ==
  IF proc.is_data_ THEN Rat(1) ELSE RDiv(Rat(lumi), Rat(store_lumi_))

\* variant: ComputeYield stores gps as it is
StoreFactorNone(lumi, proc) == Rat(1)

\* the factor of ComputeYield
StoreFactor(lumi, proc) ==
  IF proc.is_data_ THEN Rat(1) ELSE RDiv(Rat(store_lumi_), Rat(lumi))

\* GetYield on a key that is in the map
GetCachedYield(map, lumi, key) ==
  Scale(ReturnFactor(lumi, GetProcess(key)), At(map, key))

LumiWeight(lumi, proc) ==
  IF proc.is_data_ THEN CutOne ELSE LumiWeightCut(lumi)

\* variant: level 3 keeps the process cut and drops the luminosity weight
LadderCutsProcessCutKept(lumi, key) ==
  LET bin == GetBin(key)
      cut == GetCut(key)
      lumi_weight == LumiWeight(lumi, GetProcess(key))
  IN << CutTimes(lumi_weight, CutAnd(CutAnd(cut, BinCutOf(bin)), ProcessCut)),
        CutTimes(lumi_weight, CutAnd(cut, ProcessCut)),
        CutTimes(lumi_weight, ProcessCut),
        ProcessCut,
        CutOne >>

\* the array cuts of ComputeYield, indexed from 1
LadderCuts(lumi, key) ==
  LET bin == GetBin(key)
      cut == GetCut(key)
      lumi_weight == LumiWeight(lumi, GetProcess(key))
  IN << CutTimes(lumi_weight, CutAnd(CutAnd(cut, BinCutOf(bin)), ProcessCut)),
        CutTimes(lumi_weight, CutAnd(cut, ProcessCut)),
        CutTimes(lumi_weight, ProcessCut),
        lumi_weight,
        CutOne >>

\* the three ReplaceAll calls on the selection string, on the structured cut
MetTruCut(cut) == IF OnMet(cut) THEN [cut EXCEPT !.met = "met_tru"] ELSE cut

AveragesMet(proc) == Contains(proc.name_, sig)

\* temp_gps of one pass of the loop, and the queries the pass makes
LevelQueries(proc, this_cut) ==
  IF AveragesMet(proc) THEN <<this_cut, MetTruCut(this_cut)>> ELSE <<this_cut>>

LevelYield(proc, this_cut) ==
  LET temp_gps == ProcessGetYield(this_cut)
  IN IF AveragesMet(proc)
     THEN Scale(<<1, 2>>, Add(temp_gps, ProcessGetYield(MetTruCut(this_cut))))
     ELSE temp_gps

\* variant: the CountZeros test inverted
GiveUpInverted(icut, proc) == icut > 0 /\ proc.count_zeros_

GiveUp(icut, proc) == icut > 0 /\ ~proc.count_zeros_

\* variant: the effective count of a looser level is kept
AssignKeepCount(icut, temp_gps) == temp_gps

Assign(icut, temp_gps) ==
  IF icut = 0 THEN temp_gps
  ELSE SetNEffectiveAndWeight(Rat(0), temp_gps.weight_)

\* variant: the loop runs to the end of the array
ContinueToEnd(icut, gps) == icut < NumCuts

\* icut < cuts.size() && gps.Weight()<=0.
Continue(icut, gps) == icut < NumCuts /\ RLeqZero(gps.weight_)

\* the for loop of ComputeYield; level is the last pass that assigned gps
RECURSIVE Ladder(_, _, _, _, _, _)
Ladder(proc, cuts, icut, gps, queried, level) ==
  IF ~Continue(icut, gps)
  THEN [gps |-> gps, queried |-> queried, level |-> level]
  ELSE IF GiveUp(icut, proc)
  THEN [gps |-> SetNEffectiveAndWeight(Rat(0), Rat(0)),
        queried |-> queried, level |-> -1]
  ELSE LET this_cut == cuts[icut + 1]
       IN Ladder(proc, cuts, icut + 1, Assign(icut, LevelYield(proc, this_cut)),
                 queried \o LevelQueries(proc, this_cut), icut)

\* variant: the GetEntries test is missing
NoEntriesIgnored(proc) == FALSE

NoEntries(proc) == proc.entries_ = 0

\* ComputeYield: the value of gps, the queries made and the map afterwards
ComputeYield(map, lumi, key) ==
  LET proc == GetProcess(key)
      res == IF HaveYield(map, key)
             THEN [gps |-> GetCachedYield(map, lumi, key),
                   queried |-> <<>>, level |-> -1]
             ELSE IF NoEntries(proc)
             THEN [gps |-> SetNEffectiveAndWeight(Rat(0), Rat(0)),
                   queried |-> <<>>, level |-> -1]
             ELSE Ladder(proc, LadderCuts(lumi, key), 0, DefaultGammaParams, <<>>, -1)
  IN [map |-> Put(map, key, Scale(StoreFactor(lumi, proc), res.gps)),
      gps |-> res.gps, queried |-> res.queried, level |-> res.level]

---------------------------------------------------------------------------
(* Key objects that are constructed independently of each other *)

Systematic(name, strength) == [name_ |-> name, strength_ |-> strength]

BinWith(name, cut, systematics) ==
  [name_ |-> name, cut_ |-> cut, systematics_ |-> systematics]

\* bins that differ in name only, in cut only, in the systematic list only,
\* and in the strength of one systematic only
KeyBins ==
  {BinWith("r1", "c1", <<>>), BinWith("r1_copy", "c1", <<>>),
   BinWith("r1", "c2", <<>>),
   BinWith("r1", "c1", <<Systematic("s1", 1)>>),
   BinWith("r2", "c1", <<Systematic("s1", 2)>>)}

KeyProcesses ==
  {[name_ |-> n, is_data_ |-> FALSE, is_signal_ |-> FALSE,
    count_zeros_ |-> TRUE, entries_ |-> 1] : n \in ProcessNames}

KeyCuts == {Baseline, ProcessCut}

KeyObjects == {YieldKey(b, p, c) : b \in KeyBins, p \in KeyProcesses, c \in KeyCuts}

NoKey == <<>>

KeysIdle ==
  /\ key_first = NoKey
  /\ key_second = NoKey
  /\ key_map = EmptyMap
  /\ key_hit = FALSE
  /\ key_pc = "idle"

---------------------------------------------------------------------------
(* WorkspaceGenerator: the objects a generator is constructed from.        *)
(* Names and selection strings are character sequences.                    *)

mt_gt == <<"m", "t", ">">>
dilep_ == <<"d", "i", "l", "e", "p", "_">>

\* the single-lepton patterns of NeedsDileptonBin
SingleLeptonPatterns ==
  {<<"(", "n", "e", "l", "s", "+", "n", "m", "u", "s", ")", "=", "=", "1">>,
   <<"(", "n", "m", "u", "s", "+", "n", "e", "l", "s", ")", "=", "=", "1">>,
   <<"n", "e", "l", "s", "+", "n", "m", "u", "s", "=", "=", "1">>,
   <<"n", "m", "u", "s", "+", "n", "e", "l", "s", "=", "=", "1">>,
   <<"n", "l", "e", "p", "s", "=", "=", "1">>}

\* a Bin of the generator: name, cut string, blind flag, systematics
GenBin(name, cut, blind, systematics) ==
  [name_ |-> name, cut_ |-> cut, blind_ |-> blind, systematics_ |-> systematics]

Block(name, bins) == [name_ |-> name, bins_ |-> bins]

GenProcess(name, is_data, is_signal, systematics) ==
  [name_ |-> name, is_data_ |-> is_data, is_signal_ |-> is_signal,
   systematics_ |-> systematics]

name_r1 == <<"r", "1">>
name_r2 == <<"r", "2">>
name_tt == <<"t", "t">>
name_other == <<"o", "t", "h", "e", "r">>
name_lumi == <<"l", "u", "m", "i">>
name_xsec == <<"x", "s", "e", "c">>

\* baseline_
GenBaseline == <<"n", "l", "e", "p", "s", "=", "=", "1">>

\* a strength: the real number rat / sqrt(surd)
Real(rat, surd) == [rat |-> rat, surd |-> surd]
Exact(rat) == Real(rat, Rat(1))

\* the configured systematics: lumi is attached to a bin and to a process
BinSystematic == Systematic(name_lumi, Exact(Rat(1)))
ProcessSystematic == Systematic(name_lumi, Exact(Rat(2)))

\* blocks_ as constructed: one block of one row; r1 is a single-lepton
\* bin with an mt cut, r2 is not
ConfiguredBlocks(blind) ==
  <<Block(<<"b", "l", "k">>,
      <<<<GenBin(name_r1, <<"m", "t", ">", "1", "4", "0">>, blind, <<>>),
          GenBin(name_r2, <<"m", "t", "<", "=", "1", "4", "0">>, blind, <<BinSystematic>>)>>>>)>>

\* backgrounds_, signal_, data_
backgrounds_ ==
  <<GenProcess(name_tt, FALSE, FALSE, <<ProcessSystematic>>),
    GenProcess(name_other, FALSE, FALSE, <<>>)>>
signal_ == GenProcess(sig, FALSE, TRUE, <<>>)
data_ == GenProcess(<<"d", "a", "t", "a">>, TRUE, FALSE, <<>>)

\* auto all_prcs = backgrounds_; Append(all_prcs, signal_)
all_prcs == Append(backgrounds_, signal_)

RECURSIVE Concat(_)
Concat(ss) == IF ss = <<>> THEN <<>> ELSE Head(ss) \o Concat(Tail(ss))

\* the bins of a block, row by row
BinsOf(block) == Concat(block.bins_)
\* the bins of all blocks
AllBins(blocks) == Concat([i \in 1..Len(blocks) |-> BinsOf(blocks[i])])

Range(seq) == {seq[i] : i \in 1..Len(seq)}

---------------------------------------------------------------------------
(* WorkspaceGenerator: construction and the dilepton step *)

initial_luminosity == 4

PrintLevels == {"silent", "everything"}

NoSets == [n \in {} |-> {}]

\* a RooWorkspace: its name, the factory calls made on it, its named sets
\* phases is the record of the steps UpdateWorkspace has entered, each with
\* the name of its block (what the steps print at PrintLevel::everything);
\* block_yields is the record of the BlockYields made during the rebuild,
\* each with the luminosity the yield manager had
Workspace(name, calls, sets) ==
  [name_ |-> name, calls |-> calls, sets |-> sets, phases |-> <<>>,
   block_yields |-> <<>>]

\* the state of a generator after WorkspaceGenerator::WorkspaceGenerator
Constructed(blocks, file) ==
  [blocks_ |-> blocks, systematics_file_ |-> file,
   w_ |-> Workspace(<<"w">>, <<>>, NoSets),
   poi_ |-> {}, observables_ |-> {}, nuisances_ |-> {}, systematics_ |-> {},
   free_systematics_ |-> <<>>,
   luminosity_ |-> initial_luminosity, print_level_ |-> "silent",
   do_systematics_ |-> TRUE, do_dilepton_ |-> TRUE,
   do_mc_kappa_correction_ |-> TRUE, toy_num_ |-> 0, w_is_valid_ |-> FALSE,
   sig_strength_ |-> 0, baseline_ |-> GenBaseline,
   manager_luminosity |-> store_lumi_]

\* a baseline without a single-lepton requirement
LooseBaseline == <<"n", "j", "e", "t", "s", ">", "=", "6">>
Baselines == {GenBaseline, LooseBaseline}

\* variant: the "mt>" requirement on the cut of the bin is not made
NeedsDileptonBinAnyCut(bin) ==
  \E pat \in SingleLeptonPatterns :
     Contains(bin.cut_, pat) \/ Contains(baseline_, pat)

\* bool WorkspaceGenerator::NeedsDileptonBin(const Bin &bin) const
NeedsDileptonBin(bin) ==
  /\ Contains(bin.cut_, mt_gt)
  /\ \E pat \in SingleLeptonPatterns :
        Contains(bin.cut_, pat) \/ Contains(baseline_, pat)

\* GammaParams WorkspaceGenerator::GetYield: the manager is set to
\* luminosity_ and returns the stored yield times its factor
GenGetYield(lumi, proc, stored) == Scale(ReturnFactor(lumi, proc), stored)

\* variant: GetYield leaves the luminosity of the manager as it is
GetYieldKeepsManager(g, bins) == g

\* yields_.Luminosity() = luminosity_, when GetYield is called for the bins
GetYieldCalled(g, bins) ==
  IF bins = <<>> THEN g ELSE [g EXCEPT !.manager_luminosity = g.luminosity_]

RECURSIVE SumYields(_, _, _)
\* dilep_gp += GetYield(dilep_bin, bkg, dilep_baseline) over bkgs
SumYields(lumi, bkgs, stored) ==
  IF bkgs = <<>> THEN GammaParams(Rat(0), Rat(0))
  ELSE Add(SumYields(lumi, SubSeq(bkgs, 1, Len(bkgs) - 1), stored),
           GenGetYield(lumi, bkgs[Len(bkgs)], stored[bkgs[Len(bkgs)].name_]))

\* variant: the dilepton yield is always the sum of the backgrounds
DilepYieldAlwaysBackgrounds(lumi, bin, stored) ==
  SumYields(lumi, backgrounds_, stored)

\* lines 326-333: the yield of the dilepton bin made from bin
DilepYield(lumi, bin, stored) ==
  IF bin.blind_ THEN SumYields(lumi, backgrounds_, stored)
  ELSE GenGetYield(lumi, data_, stored[data_.name_])

RGreater(a, b) == RPos(RAdd(a, <<-b[1], b[2]>>))

IsSquare(n) == \E k \in 0..n : k * k = n
Root(n) == CHOOSE k \in 0..n : k * k = n

\* 1./sqrt(y) for y > 0, exact when y is the square of a rational
InvSqrt(y) ==
  IF IsSquare(y[1]) /\ IsSquare(y[2])
  THEN Exact(Norm(Root(y[2]), Root(y[1])))
  ELSE Real(Rat(1), y)

\* lines 335-339
DilepStrength(y) == IF RGreater(y, Rat(1)) THEN InvSqrt(y) ELSE Exact(Rat(1))

IndexOfName(systs, name) ==
  IF \E i \in 1..Len(systs) : systs[i].name_ = name
  THEN CHOOSE i \in 1..Len(systs) : systs[i].name_ = name
  ELSE 0

\* Bin::AddSystematic: a systematic with a name already present is updated
AddSystematic(bin, syst) ==
  LET i == IndexOfName(bin.systematics_, syst.name_)
  IN [bin EXCEPT !.systematics_ =
        IF i = 0 THEN Append(@, syst) ELSE [@ EXCEPT ![i] = syst]]

\* void WorkspaceGenerator::AddDileptonSystematic()
AddDileptonSystematic(g, source) ==
  [GetYieldCalled(g, SelectSeq(AllBins(g.blocks_), NeedsDileptonBin))
   EXCEPT !.blocks_ =
     [b \in 1..Len(@) |->
        [@[b] EXCEPT !.bins_ =
           [r \in 1..Len(@) |->
              [c \in 1..Len(@[r]) |->
                 LET bin == @[r][c]
                 IN IF ~NeedsDileptonBin(bin) THEN bin
                    ELSE AddSystematic(bin,
                           Systematic(dilep_ \o bin.name_,
                             DilepStrength(
                               Yield(DilepYield(g.luminosity_, bin,
                                                source[bin.name_])))))]]]]]

---------------------------------------------------------------------------
(* WorkspaceGenerator: reading the systematics file.  A file is the        *)
(* sequence of its lines, a line a character sequence.                     *)

MaxLines == 4

SYSTEMATIC == <<"S", "Y", "S", "T", "E", "M", "A", "T", "I", "C">>
PROCESSES == <<"P", "R", "O", "C", "E", "S", "S", "E", "S">>

RECURSIVE CollapseSpaces(_)
\* do{ old = line; ReplaceAll(line, "  ", " "); } while(line != old)
CollapseSpaces(line) ==
  LET next == ReplaceAll(line, <<" ", " ">>, <<" ">>)
  IN IF next = line THEN line ELSE CollapseSpaces(next)

RECURSIVE StripLeadingSpaces(_)
StripLeadingSpaces(line) ==
  IF Len(line) > 0 /\ line[1] = " " THEN StripLeadingSpaces(Tail(line)) ELSE line

\* void WorkspaceGenerator::CleanLine(string &line)
CleanLine(line) ==
  LET stripped == StripLeadingSpaces(CollapseSpaces(ReplaceAll(line, <<"=">>, <<>>)))
  IN IF Len(stripped) > 0 /\ stripped[1] = "#" THEN <<>> ELSE stripped

RECURSIVE TokenizeFrom(_, _, _)
\* the tokens of str, cur being the token under construction
TokenizeFrom(str, delims, cur) ==
  IF str = <<>> THEN (IF cur = <<>> THEN <<>> ELSE <<cur>>)
  ELSE IF Head(str) \in delims
       THEN (IF cur = <<>> THEN <<>> ELSE <<cur>>) \o TokenizeFrom(Tail(str), delims, <<>>)
       ELSE TokenizeFrom(Tail(str), delims, Append(cur, Head(str)))

\* Tokenize(str, delims): the maximal runs of non-delimiter characters
Tokenize(str, delims) == TokenizeFrom(str, delims, <<>>)

Digits == {"0", "1", "2", "3", "4", "5", "6", "7", "8", "9"}
DigitValue(c) ==
  CASE c = "0" -> 0 [] c = "1" -> 1 [] c = "2" -> 2 [] c = "3" -> 3
    [] c = "4" -> 4 [] c = "5" -> 5 [] c = "6" -> 6 [] c = "7" -> 7
    [] c = "8" -> 8 [] c = "9" -> 9

RECURSIVE AtofFrom(_, _, _, _)
\* num/den is the value read so far; after the point den grows
AtofFrom(str, num, den, after_point) ==
  IF str = <<>> THEN Norm(num, den)
  ELSE IF Head(str) \in Digits
       THEN AtofFrom(Tail(str), 10 * num + DigitValue(Head(str)),
                     IF after_point THEN 10 * den ELSE den, after_point)
       ELSE IF Head(str) = "." /\ ~after_point
            THEN AtofFrom(Tail(str), num, den, TRUE)
            ELSE Norm(num, den)

\* atof on an unsigned decimal: the longest numeric prefix, 0 if there is none
Atof(str) == AtofFrom(str, 0, 1, FALSE)

\* FreeSystematic: a name and the strengths of its (bin, process) entries
FreeSystematic(name) == [name_ |-> name, strengths_ |-> [e \in {} |-> Rat(0)]]

EntryKey(bin, prc) == <<BinComparisonTuple(bin), prc>>
HasEntry(syst, bin, prc) == EntryKey(bin, prc) \in DOMAIN syst.strengths_
\* this_systematic.Strength(bin, prc) = value
SetStrength(syst, bin, prc, value) ==
  [syst EXCEPT !.strengths_ =
     [e \in DOMAIN @ \cup {EntryKey(bin, prc)} |->
        IF e = EntryKey(bin, prc) THEN value ELSE @[e]]]

RECURSIVE SetForProcesses(_, _, _, _)
\* lines 284-286
SetForProcesses(syst, bin, prcs, value) ==
  IF prcs = <<>> THEN syst
  ELSE SetForProcesses(SetStrength(syst, bin, Head(prcs), value),
                       bin, Tail(prcs), value)

RECURSIVE SetStrengths(_, _, _, _, _)
\* lines 277-289: every configured bin whose name is the first word,
\* every selected process
SetStrengths(syst, bins, word, prcs, value) ==
  IF bins = <<>> THEN syst
  ELSE SetStrengths(
         IF ReplaceAll(ReplaceAll(word, <<" ">>, <<>>), <<"\t">>, <<>>)
              # Head(bins).name_
         THEN syst ELSE SetForProcesses(syst, Head(bins), prcs, value),
         Tail(bins), word, prcs, value)

\* the processes of all_prc with that name, in the order of all_prc
ProcessesNamed(name) == SelectSeq(all_prcs, LAMBDA prc : prc.name_ = name)

\* variant: a PROCESSES line selects every background and the signal
SelectedProcessesAll(line) == all_prcs

\* lines 265-275: the selection a PROCESSES line makes
SelectedProcesses(line) ==
  Concat([w \in 1..(Len(line) - 1) |->
            LET names == Tokenize(line[w + 1], {",", " "})
            IN Concat([n \in 1..Len(names) |-> ProcessesNamed(names[n])])])

\* variant: without a PROCESSES line every background and the signal is selected
DefaultProcessListAll == all_prcs

\* auto process_list = all_prc; process_list.clear()
DefaultProcessList == <<>>

File(name, lines) == [name |-> name, lines |-> lines]
NoFile == File("", <<>>)

\* lines 230-241: the words of the lines that are not empty once cleaned
WordsOf(lines) ==
  LET cleaned == SelectSeq([i \in 1..Len(lines) |-> CleanLine(lines[i])],
                           LAMBDA l : l # <<>>)
  IN [i \in 1..Len(cleaned) |-> Tokenize(cleaned[i], {" "})]

\* variant: a SYSTEMATIC header also empties the process selection
OnHeaderResetting(st, line) ==
  [st EXCEPT
     !.free = IF st.ready THEN Append(@, st.this) ELSE @,
     !.this = FreeSystematic(line[2]),
     !.ready = TRUE,
     !.process_list = <<>>]

\* lines 258-263: a SYSTEMATIC header appends the systematic read so far, if
\* there is one, and starts the next; process_list is left as it is
OnHeader(st, line) ==
  [st EXCEPT
     !.free = IF st.ready THEN Append(@, st.this) ELSE @,
     !.this = FreeSystematic(line[2]),
     !.ready = TRUE]

RECURSIVE ReadWords(_, _, _)
\* the loop of lines 252-291 over the remaining words; st holds
\* free_systematics_, this_systematic, ready, process_list and whether the
\* loop has thrown
ReadWords(words, bins, st) ==
  IF words = <<>> \/ st.threw THEN st
  ELSE LET line == Head(words)
       IN IF Len(line) < 2 THEN [st EXCEPT !.threw = TRUE]
          ELSE ReadWords(Tail(words), bins,
                 IF line[1] = SYSTEMATIC
                 THEN OnHeader(st, line)
                 ELSE IF line[1] = PROCESSES
                 THEN [st EXCEPT !.process_list = SelectedProcesses(line)]
                 ELSE [st EXCEPT !.this =
                         SetStrengths(@, bins, line[1], st.process_list,
                                      Atof(line[2]))])

BADBAD == <<"B", "A", "D">>

\* variant: a line of fewer than two words is skipped
ReadSystematicsFileLenient(g) ==
  IF g.systematics_file_.name = ""
  THEN [free_systematics_ |-> g.free_systematics_, threw |-> FALSE]
  ELSE LET st == ReadWords(SelectSeq(WordsOf(g.systematics_file_.lines),
                                     LAMBDA line : Len(line) >= 2),
                           AllBins(g.blocks_),
                           [free |-> <<>>, this |-> FreeSystematic(BADBAD),
                            ready |-> FALSE,
                            process_list |-> DefaultProcessList,
                            threw |-> FALSE])
       IN [free_systematics_ |->
             IF st.ready THEN Append(st.free, st.this) ELSE st.free,
           threw |-> FALSE]

\* void WorkspaceGenerator::ReadSystematicsFile(); the result is the
\* new free_systematics_ and whether it threw
ReadSystematicsFile(g) ==
  IF g.systematics_file_.name = ""
  THEN [free_systematics_ |-> g.free_systematics_, threw |-> FALSE]
  ELSE LET st == ReadWords(WordsOf(g.systematics_file_.lines),
                           AllBins(g.blocks_),
                           [free |-> <<>>, this |-> FreeSystematic(BADBAD),
                            ready |-> FALSE,
                            process_list |-> DefaultProcessList,
                            threw |-> FALSE])
       IN [free_systematics_ |->
             IF ~st.threw /\ st.ready THEN Append(st.free, st.this) ELSE st.free,
           threw |-> st.threw]

---------------------------------------------------------------------------
(* WorkspaceGenerator: the generator as one value *)

\* the generator of the current state
Gen ==
  [blocks_ |-> blocks_, systematics_file_ |-> systematics_file_, w_ |-> w_,
   poi_ |-> poi_, observables_ |-> observables_, nuisances_ |-> nuisances_,
   systematics_ |-> systematics_, free_systematics_ |-> free_systematics_,
   luminosity_ |-> luminosity_, print_level_ |-> print_level_,
   do_systematics_ |-> do_systematics_, do_dilepton_ |-> do_dilepton_,
   do_mc_kappa_correction_ |-> do_mc_kappa_correction_, toy_num_ |-> toy_num_,
   w_is_valid_ |-> w_is_valid_, sig_strength_ |-> sig_strength_,
   baseline_ |-> baseline_,
   manager_luminosity |-> local_lumi_[SharedManager]]

\* the generator of the current state is g
GenIs(g) ==
  /\ blocks_ = g.blocks_
  /\ systematics_file_ = g.systematics_file_
  /\ w_ = g.w_
  /\ poi_ = g.poi_
  /\ observables_ = g.observables_
  /\ nuisances_ = g.nuisances_
  /\ systematics_ = g.systematics_
  /\ free_systematics_ = g.free_systematics_
  /\ luminosity_ = g.luminosity_
  /\ print_level_ = g.print_level_
  /\ do_systematics_ = g.do_systematics_
  /\ do_dilepton_ = g.do_dilepton_
  /\ do_mc_kappa_correction_ = g.do_mc_kappa_correction_
  /\ toy_num_ = g.toy_num_
  /\ sig_strength_ = g.sig_strength_
  /\ baseline_ = g.baseline_
  /\ w_is_valid_ = g.w_is_valid_

\* the generator of the next state is g
GenBecomes(g) ==
  /\ blocks_' = g.blocks_
  /\ systematics_file_' = g.systematics_file_
  /\ w_' = g.w_
  /\ poi_' = g.poi_
  /\ observables_' = g.observables_
  /\ nuisances_' = g.nuisances_
  /\ systematics_' = g.systematics_
  /\ free_systematics_' = g.free_systematics_
  /\ luminosity_' = g.luminosity_
  /\ print_level_' = g.print_level_
  /\ do_systematics_' = g.do_systematics_
  /\ do_dilepton_' = g.do_dilepton_
  /\ do_mc_kappa_correction_' = g.do_mc_kappa_correction_
  /\ toy_num_' = g.toy_num_
  /\ sig_strength_' = g.sig_strength_
  /\ baseline_' = g.baseline_
  /\ w_is_valid_' = g.w_is_valid_

\* what the event source holds for the signal in a dilepton bin
SignalYield == GammaParams(Rat(3), Rat(1))

\* the stored yields of the dilepton bins: bin name -> process name -> yield
SourceOf(data_gp, tt_gp, other_gp) ==
  [b \in {name_r1, name_r2} |->
     [n \in {data_.name_, name_tt, name_other, sig} |->
        IF n = data_.name_ THEN data_gp
        ELSE IF n = name_tt THEN tt_gp
        ELSE IF n = name_other THEN other_gp ELSE SignalYield]]

\* yields of the bins: bin name -> process name -> stored yield
FixedYields ==
  [b \in {name_r1, name_r2} |->
     [n \in {data_.name_, name_tt, name_other, sig} |->
        IF b = name_r1 THEN GammaParams(Rat(1), Rat(1))
        ELSE GammaParams(Rat(2), Rat(1))]]

FixedSource ==
  SourceOf(GammaParams(Rat(9), Rat(1)), GammaParams(Rat(2), Rat(1)),
           GammaParams(Rat(2), Rat(1)))

GeneratorIdle ==
  /\ GenIs(Constructed(ConfiguredBlocks(FALSE), NoFile))
  /\ dilep_source = FixedSource
  /\ bin_source = FixedYields
  /\ wg_last = [op |-> "none"]
  /\ wg_calls = 0

---------------------------------------------------------------------------
(* WorkspaceGenerator: the rebuild.  A factory call is recorded with the   *)
(* name it declares, the names it refers to and the names of the variables *)
(* it creates in line; a name is a sequence of strings, its literal parts  *)
(* kept whole.                                                             *)

Decl(kind, name, args, inline) ==
  [kind |-> kind, name |-> name, args |-> args, inline |-> inline]

\* the value a variable is declared with: a number, a draw from the Poisson
\* distribution of a rate, or the result of 0./0.
Number(q) == [kind |-> "number", of |-> q]
NotANumber == [kind |-> "nan", of |-> Rat(0)]

\* int WorkspaceGenerator::GetPoisson(double rate): the draw is kept as the
\* distribution it is made from
GetPoisson(rate) == [kind |-> "poisson", of |-> rate]

\* a / b in floating point, for a >= 0 and b >= 0
FDiv(a, b) ==
  IF b[1] # 0 THEN Number(RDiv(a, b))
  ELSE IF a[1] = 0 THEN NotANumber ELSE [kind |-> "inf", of |-> Rat(0)]

RMax(a, b) == IF RPos(RAdd(b, <<-a[1], a[2]>>)) THEN b ELSE a

\* name[value] or name[value,lo,hi]: range is <<>> or <<lo, hi>>
VarDecl(name, value, range) ==
  [kind |-> "var", name |-> name, args |-> <<>>, inline |-> <<>>,
   value |-> value, range |-> range]

\* w_.factory(...) for each of decls, in order
Factory(g, decls) == [g EXCEPT !.w_.calls = @ \o decls]

\* void WorkspaceGenerator::AddPOI()
AddPOI(g) ==
  [Factory(g, <<VarDecl(<<"r">>, Number(Rat(1)), <<Rat(0), Rat(20)>>)>>) EXCEPT
     !.poi_ = @ \cup {<<"r">>}]

\* variant: the constraint is declared whether or not the name is known
AddSystematicGeneratorAlways(g, name) ==
  [Factory(g, <<Decl("RooGaussian", <<"constraint_">> \o name, <<name>>, <<name>>)>>)
   EXCEPT !.nuisances_ = @ \cup {name}, !.systematics_ = @ \cup {name}]

\* void WorkspaceGenerator::AddSystematicGenerator(const string &name)
AddSystematicGenerator(g, name) ==
  IF name \in g.systematics_ THEN g
  ELSE [Factory(g, <<Decl("RooGaussian", <<"constraint_">> \o name, <<name>>, <<name>>)>>)
        EXCEPT !.nuisances_ = @ \cup {name}, !.systematics_ = @ \cup {name}]

\* strength_<full_name>[...] and expr::<full_name>('exp(strength*name)', ...)
StrengthDecls(full_name, name) ==
  <<Decl("var", <<"strength_">> \o full_name, <<>>, <<>>),
    Decl("expr", full_name, <<<<"strength_">> \o full_name, name>>, <<>>)>>

BlkBin(block, bin) == <<"_BLK_">> \o block.name_ \o <<"_BIN_">> \o bin.name_
BinPrc(bin, prc) == <<"_BIN_">> \o bin.name_ \o <<"_PRC_">> \o prc.name_

\* what AddSystematicsGenerators does per systematic: the generator of name,
\* then the declarations decls
GeneratorItem(name, decls) == [name |-> name, decls |-> decls]

\* lines 395-412, for one block
BinItems(block) ==
  Concat([b \in 1..Len(BinsOf(block)) |->
     LET bin == BinsOf(block)[b]
     IN [i \in 1..Len(bin.systematics_) |->
           LET syst == bin.systematics_[i]
           IN GeneratorItem(syst.name_,
                StrengthDecls(syst.name_ \o BlkBin(block, bin),
                              syst.name_))]])

\* lines 414-429
ProcessItems ==
  Concat([p \in 1..Len(all_prcs) |->
     LET prc == all_prcs[p]
     IN [i \in 1..Len(prc.systematics_) |->
           LET syst == prc.systematics_[i]
           IN GeneratorItem(syst.name_,
                StrengthDecls(syst.name_ \o <<"_PRC_">> \o prc.name_,
                              syst.name_))]])

\* lines 431-451, for one free systematic
FreeItem(syst, blocks) ==
  GeneratorItem(syst.name_,
    Concat([b \in 1..Len(AllBins(blocks)) |->
      Concat([p \in 1..Len(all_prcs) |->
        IF HasEntry(syst, AllBins(blocks)[b], all_prcs[p])
        THEN StrengthDecls(syst.name_ \o BinPrc(AllBins(blocks)[b], all_prcs[p]),
                           syst.name_)
        ELSE <<>>])]))

GeneratorItems(g) ==
  Concat([b \in 1..Len(g.blocks_) |-> BinItems(g.blocks_[b])])
  \o ProcessItems
  \o [f \in 1..Len(g.free_systematics_) |->
        FreeItem(g.free_systematics_[f], g.blocks_)]

RECURSIVE AddItems(_, _)
AddItems(g, items) ==
  IF items = <<>> THEN g
  ELSE AddItems(Factory(AddSystematicGenerator(g, Head(items).name),
                        Head(items).decls),
                Tail(items))

\* void WorkspaceGenerator::AddSystematicsGenerators()
AddSystematicsGenerators(g) == AddItems(g, GeneratorItems(g))

---------------------------------------------------------------------------
(* WorkspaceGenerator: the phases of a rebuild that run per block *)

use_r4_ == FALSE

Dec(n) ==
  CASE n = 0 -> "0" [] n = 1 -> "1" [] n = 2 -> "2" [] n = 3 -> "3"
    [] n = 4 -> "4" [] n = 5 -> "5" [] n = 6 -> "6" [] n = 7 -> "7"
    [] n = 8 -> "8" [] n = 9 -> "9"

RECURSIVE SumSeq(_)
SumSeq(qs) == IF qs = <<>> THEN Rat(0) ELSE RAdd(Head(qs), SumSeq(Tail(qs)))

\* the summed background yield of a bin
BackgroundYield(bin) ==
  SumSeq([p \in 1..Len(backgrounds_) |->
            Yield(bin_source[bin.name_][backgrounds_[p].name_])])

NumRows(block) == Len(block.bins_)
NumCols(block) == Len(block.bins_[1])
RowSum(block, r) ==
  SumSeq([c \in 1..Len(block.bins_[r]) |-> BackgroundYield(block.bins_[r][c])])
ColSum(block, c) ==
  SumSeq([r \in 1..NumRows(block) |-> BackgroundYield(block.bins_[r][c])])

\* BlockYields::MaxRow, MaxCol: the first row (column) of largest sum,
\* counted from 1; at another luminosity every background sum is scaled by
\* the same positive factor, which leaves the order as it is
MaxRow(block) ==
  LET sums == [r \in 1..NumRows(block) |-> RowSum(block, r)]
  IN CHOOSE r \in 1..NumRows(block) :
       /\ \A q \in 1..NumRows(block) : ~RGreater(sums[q], sums[r])
       /\ \A q \in 1..(r - 1) : RGreater(sums[r], sums[q])
MaxCol(block) ==
  LET sums == [c \in 1..NumCols(block) |-> ColSum(block, c)]
  IN CHOOSE c \in 1..NumCols(block) :
       /\ \A q \in 1..NumCols(block) : ~RGreater(sums[q], sums[c])
       /\ \A q \in 1..(c - 1) : RGreater(sums[c], sums[q])

Blk(block) == <<"_BLK_">> \o block.name_
BlkBinPrc(block, bin, prc) == BlkBin(block, bin) \o <<"_PRC_">> \o prc.name_

\* the declarations per bin of a block, bin by bin
PerBin(block, F(_)) ==
  LET bins == BinsOf(block)
  IN Concat([b \in 1..Len(bins) |-> F(bins[b])] \o <<>>)
\* the declarations per process of prcs
PerProcess(prcs, F(_)) == Concat([p \in 1..Len(prcs) |-> F(prcs[p])] \o <<>>)

KeepsBin(name) == use_r4_ \/ ~Contains(name, <<"4">>)

\* variant: no signal is injected into a blind bin
ObservedYieldNoInjection(g, bin) ==
  IF bin.blind_
  THEN Yield(SumYields(g.luminosity_, backgrounds_, bin_source[bin.name_]))
  ELSE Yield(GenGetYield(g.luminosity_, data_, bin_source[bin.name_][data_.name_]))

\* lines 470-479: gps.Yield()
ObservedYield(g, bin) ==
  IF bin.blind_
  THEN Yield(Add(SumYields(g.luminosity_, backgrounds_, bin_source[bin.name_]),
                 Scale(Rat(g.sig_strength_),
                       GenGetYield(g.luminosity_, signal_,
                                   bin_source[bin.name_][signal_.name_]))))
  ELSE Yield(GenGetYield(g.luminosity_, data_, bin_source[bin.name_][data_.name_]))

\* void WorkspaceGenerator::AddData(const Block &block)
AddData(g, block) ==
  [Factory(GetYieldCalled(g, BinsOf(block)), PerBin(block,
     LAMBDA bin : <<VarDecl(<<"nobs">> \o BlkBin(block, bin),
                            IF g.toy_num_ # 0
                            THEN GetPoisson(ObservedYield(g, bin))
                            ELSE Number(ObservedYield(g, bin)),
                            <<>>)>>))
   EXCEPT !.observables_ =
     @ \cup {<<"nobs">> \o BlkBin(block, bin) :
               bin \in {b \in Range(BinsOf(block)) : KeepsBin(b.name_)}}]

\* the upper end of the range of nmc: max(5.*gp.NEffective(), 20.)
MCRangeEnd(n_effective) == RMax(RMul(Rat(5), n_effective), Rat(20))

\* lines 636-657: the four declarations made for the yield gp of a process
MCYieldDeclarations(toy_num, bbp, gp) ==
  <<VarDecl(<<"nobsmc">> \o bbp,
            IF toy_num # 0 THEN GetPoisson(gp.n_effective_)
            ELSE Number(gp.n_effective_), <<>>),
    VarDecl(<<"nmc">> \o bbp, Number(gp.n_effective_),
            <<Rat(0), MCRangeEnd(gp.n_effective_)>>),
    VarDecl(<<"wmc">> \o bbp, Number(gp.weight_), <<>>),
    Decl("prod", <<"ymc">> \o bbp,
         <<<<"nmc">> \o bbp, <<"wmc">> \o bbp>>, <<>>)>>

\* void WorkspaceGenerator::AddMCYields(const Block &block)
AddMCYields(g, block) ==
  [Factory(GetYieldCalled(g, BinsOf(block)),
           PerBin(block, LAMBDA bin : PerProcess(all_prcs, LAMBDA prc :
     MCYieldDeclarations(g.toy_num_, BlkBinPrc(block, bin, prc),
       GenGetYield(g.luminosity_, prc, bin_source[bin.name_][prc.name_])))))
   EXCEPT
     !.observables_ =
       @ \cup {<<"nobsmc">> \o BlkBinPrc(block, bin, prc) :
                 bin \in Range(BinsOf(block)), prc \in Range(all_prcs)},
     !.nuisances_ =
       @ \cup {<<"nmc">> \o BlkBinPrc(block, bin, prc) :
                 bin \in Range(BinsOf(block)), prc \in Range(all_prcs)}]

\* void WorkspaceGenerator::AddMCPdfs(const Block &block)
AddMCPdfs(g, block) ==
  LET pdfs == PerBin(block, LAMBDA bin : PerProcess(all_prcs, LAMBDA prc :
        LET bbp == BlkBinPrc(block, bin, prc)
        IN <<Decl("RooPoisson", <<"pdf_mc">> \o bbp,
                  <<<<"nobsmc">> \o bbp, <<"nmc">> \o bbp>>, <<>>)>>))
  IN Factory(g, pdfs \o
       <<Decl("PROD", <<"pdf_mc_">> \o block.name_,
              [i \in 1..Len(pdfs) |-> pdfs[i].name], <<>>)>>)

\* void WorkspaceGenerator::AddMCProcessSums(const Block &block)
AddMCProcessSums(g, block) ==
  Factory(g, PerBin(block, LAMBDA bin :
    <<Decl("sum", <<"ymc">> \o BlkBin(block, bin),
           [p \in 1..Len(backgrounds_) |->
              <<"ymc">> \o BlkBinPrc(block, bin, backgrounds_[p])], <<>>)>>))

\* void WorkspaceGenerator::AddBackgroundFractions(const Block &block)
AddBackgroundFractions(g, block) ==
  Factory(g, PerBin(block, LAMBDA bin : PerProcess(backgrounds_, LAMBDA bkg :
    <<Decl("expr", <<"frac">> \o BinPrc(bin, bkg),
           <<<<"ymc">> \o BlkBinPrc(block, bin, bkg),
             <<"ymc">> \o BlkBin(block, bin)>>, <<>>)>>)))

\* "ry" << irow+1 << (max_row+1) << "_BLK_" << block.Name(), and for columns
RowRatio(block, r, max_row) == <<"ry", Dec(r), Dec(max_row)>> \o Blk(block)
ColRatio(block, c, max_col) == <<"rx", Dec(c), Dec(max_col)>> \o Blk(block)
\* the indices of 1..n that are not max, in increasing order
Others(n, max) == SelectSeq([i \in 1..n |-> i], LAMBDA i : i # max)

\* BlockYields by(block, backgrounds_, baseline_, yields_) is made
TakeBlockYields(g, block) ==
  [g EXCEPT !.w_.block_yields =
     Append(@, [block |-> block.name_, bins |-> Len(BinsOf(block)),
                luminosity |-> g.manager_luminosity])]

\* BlockYields, at the luminosity the manager has: RowSums, ColSums, Total
RowSumAt(g, block, r) ==
  SumSeq([c \in 1..Len(block.bins_[r]) |->
            Yield(SumYields(g.manager_luminosity, backgrounds_,
                            bin_source[block.bins_[r][c].name_]))])
ColSumAt(g, block, c) ==
  SumSeq([r \in 1..NumRows(block) |->
            Yield(SumYields(g.manager_luminosity, backgrounds_,
                            bin_source[block.bins_[r][c].name_]))])
Total(g, block) == SumSeq([r \in 1..NumRows(block) |-> RowSumAt(g, block, r)])

\* variant: the norm starts at the total yield, also below 1
NormValueUnclamped(total) == total

\* max(1., by.Total().Yield())
NormValue(total) == RMax(Rat(1), total)

\* the declarations of AddABCDParameters
ABCDDeclarations(g, block, max_row, max_col, rows, cols, rys, rxs, total) ==
  <<VarDecl(<<"norm">> \o Blk(block), Number(NormValue(total)),
            <<Rat(0), RMax(RMul(Rat(5), total), Rat(20))>>)>>
  \o [i \in 1..Len(rys) |->
        VarDecl(rys[i],
                FDiv(RowSumAt(g, block, rows[i]),
                     RowSumAt(g, block, max_row)),
                <<Rat(0), Rat(10)>>)]
  \o <<Decl("sum", <<"rynorm">> \o Blk(block), rys, <<>>)>>
  \o [i \in 1..Len(rxs) |->
        VarDecl(rxs[i],
                FDiv(ColSumAt(g, block, cols[i]),
                     ColSumAt(g, block, max_col)),
                <<Rat(0), Rat(10)>>)]
  \o <<Decl("sum", <<"rxnorm">> \o Blk(block), rxs, <<>>),
       Decl("prod", <<"rnorm">> \o Blk(block),
            <<<<"rxnorm">> \o Blk(block), <<"rynorm">> \o Blk(block)>>, <<>>),
       Decl("expr", <<"rscale">> \o Blk(block),
            <<<<"norm">> \o Blk(block), <<"rnorm">> \o Blk(block)>>, <<>>)>>

\* the ratio parameters are nuisances like the norm
ABCDNuisances(g, block, max_row, max_col, rows, cols, rys, rxs, total) ==
  [Factory(g, ABCDDeclarations(g, block, max_row, max_col, rows, cols,
                               rys, rxs, total))
     EXCEPT !.nuisances_ =
       @ \cup {<<"norm">> \o Blk(block)} \cup Range(rys) \cup Range(rxs)]

\* the rows but max_row and the columns but max_col, with their parameters
ABCDRatios(g, block, max_row, max_col, rows, cols, total) ==
  ABCDNuisances(g, block, max_row, max_col, rows, cols,
    [i \in 1..Len(rows) |-> RowRatio(block, rows[i], max_row)] \o <<>>,
    [i \in 1..Len(cols) |-> ColRatio(block, cols[i], max_col)] \o <<>>,
    total)

\* by.MaxRow(), by.MaxCol() and by.Total() are taken once
ABCDParameters(g, block, max_row, max_col, total) ==
  ABCDRatios(g, block, max_row, max_col,
             Others(NumRows(block), max_row) \o <<>>,
             Others(NumCols(block), max_col) \o <<>>, total)

\* void WorkspaceGenerator::AddABCDParameters(const Block &block)
AddABCDParameters(g, block) ==
  ABCDParameters(TakeBlockYields(g, block), block,
                 MaxRow(block), MaxCol(block), Total(g, block))

\* the cells of a block row by row, rows and columns counted from 1
Cells(block) ==
  Concat([r \in 1..NumRows(block) |->
            [c \in 1..Len(block.bins_[r]) |->
               [row |-> r, col |-> c, bin |-> block.bins_[r][c]]]])
PerCell(block, F(_)) ==
  LET cells == Cells(block)
  IN Concat([i \in 1..Len(cells) |-> F(cells[i])] \o <<>>)

\* the names of the multipliers of the systematics attached to a process
ProcessFactors(prc, Name(_)) ==
  [i \in 1..Len(prc.systematics_) |-> Name(prc.systematics_[i])]
\* the names of the multipliers of the free systematics with an entry
FreeFactors(free, bin, prc) ==
  LET with == SelectSeq(free, LAMBDA syst : HasEntry(syst, bin, prc))
  IN [i \in 1..Len(with) |-> with[i].name_ \o BinPrc(bin, prc)]

\* variant: every column but the first and every row but the first scales
RateFactorsFirstReference(g, block, cell, bkg, max_row, max_col) ==
  <<<<"rscale">> \o Blk(block)>>
  \o (IF cell.col # 1 THEN <<ColRatio(block, cell.col, max_col)>> ELSE <<>>)
  \o (IF cell.row # 1 THEN <<RowRatio(block, cell.row, max_row)>> ELSE <<>>)
  \o <<<<"frac">> \o BinPrc(cell.bin, bkg)>>
  \o (IF g.do_systematics_
      THEN ProcessFactors(bkg, LAMBDA syst : syst.name_ \o <<"_PRC_">> \o bkg.name_)
           \o FreeFactors(g.free_systematics_, cell.bin, bkg)
      ELSE <<>>)

\* the factors of rate_<bin>_PRC_<bkg>, lines 578-599
RateFactors(g, block, cell, bkg, max_row, max_col) ==
  <<<<"rscale">> \o Blk(block)>>
  \o (IF cell.col # max_col THEN <<ColRatio(block, cell.col, max_col)>> ELSE <<>>)
  \o (IF cell.row # max_row THEN <<RowRatio(block, cell.row, max_row)>> ELSE <<>>)
  \o <<<<"frac">> \o BinPrc(cell.bin, bkg)>>
  \o (IF g.do_systematics_
      THEN ProcessFactors(bkg, LAMBDA syst : syst.name_ \o <<"_PRC_">> \o bkg.name_)
           \o FreeFactors(g.free_systematics_, cell.bin, bkg)
      ELSE <<>>)

\* the rate of every background in every bin, and their sum per bin
RawPredictions(g, block, max_row, max_col) ==
  Factory(g, PerCell(block, LAMBDA cell :
    PerProcess(backgrounds_, LAMBDA bkg :
      <<Decl("prod",
             <<"rate">> \o BlkBin(block, cell.bin) \o <<"_PRC_">> \o bkg.name_,
             RateFactors(g, block, cell, bkg, max_row, max_col), <<>>)>>)
    \o <<Decl("sum", <<"nbkg_raw">> \o BlkBin(block, cell.bin),
              [p \in 1..Len(backgrounds_) |->
                 <<"rate">> \o BlkBin(block, cell.bin) \o <<"_PRC_">>
                 \o backgrounds_[p].name_],
              <<>>)>>))

\* void WorkspaceGenerator::AddRawBackgroundPredictions(const Block &block)
AddRawBackgroundPredictions(g, block) ==
  RawPredictions(TakeBlockYields(g, block), block, MaxRow(block), MaxCol(block))

RowMC(block, r) == <<"rowmc", Dec(r)>> \o Blk(block)
ColMC(block, c) == <<"colmc", Dec(c)>> \o Blk(block)

\* the formula of an expr declaration over its arguments, counted from 1
Arg(i) == [op |-> "arg", i |-> i]
Times(l, r) == [op |-> "*", l |-> l, r |-> r]
Over(l, r) == [op |-> "/", l |-> l, r |-> r]
Expr(name, formula, args) ==
  [kind |-> "expr", name |-> name, args |-> args, inline |-> <<>>,
   formula |-> formula]

\* variant: the product of row sum and column sum is not divided by the total
PredictionFormulaNoTotal == Times(Arg(1), Arg(2))

\* AddMCPrediction: '(rowmc*colmc)/totmc' of (rowmc, colmc, totmc)
PredictionFormula == Over(Times(Arg(1), Arg(2)), Arg(3))

\* AddMCKappa: 'ymc/predmc' of (ymc, predmc)
KappaFormula == Over(Arg(1), Arg(2))

\* void WorkspaceGenerator::AddKappas(const Block &block): AddMCRowSums,
\* AddMCColSums, AddMCTotal, AddMCPrediction, AddMCKappa
AddKappas(g, block) ==
  Factory(g,
    [r \in 1..NumRows(block) |->
       Decl("sum", RowMC(block, r),
            [c \in 1..Len(block.bins_[r]) |->
               <<"ymc">> \o BlkBin(block, block.bins_[r][c])], <<>>)]
    \o (IF NumRows(block) > 0 /\ NumCols(block) > 0
        THEN [c \in 1..NumCols(block) |->
                LET rows == SelectSeq([r \in 1..NumRows(block) |-> r],
                                      LAMBDA r : r = 1 \/ c <= Len(block.bins_[r]))
                IN Decl("sum", ColMC(block, c),
                        [i \in 1..Len(rows) |->
                           <<"ymc">> \o BlkBin(block, block.bins_[rows[i]][c])],
                        <<>>)]
        ELSE <<>>)
    \o <<Decl("sum", <<"totmc">> \o Blk(block),
              [r \in 1..NumRows(block) |-> RowMC(block, r)], <<>>)>>
    \o PerCell(block, LAMBDA cell :
         <<Expr(<<"predmc">> \o BlkBin(block, cell.bin), PredictionFormula,
                <<RowMC(block, cell.row), ColMC(block, cell.col),
                  <<"totmc">> \o Blk(block)>>)>>)
    \o PerBin(block, LAMBDA bin :
         <<Expr(<<"kappamc">> \o BlkBin(block, bin), KappaFormula,
                <<<<"ymc">> \o BlkBin(block, bin),
                  <<"predmc">> \o BlkBin(block, bin)>>)>>))

IsDilep(name) == Len(name) >= 6 /\ SubSeq(name, 1, 6) = dilep_

\* variant: the factors of nbkg_<bin> without the test on the name dilep_
FullFactorsAllSystematics(g, block, bin) ==
  <<<<"nbkg_raw">> \o BlkBin(block, bin)>>
  \o (LET systs == SelectSeq(bin.systematics_, LAMBDA syst : g.do_systematics_)
      IN [i \in 1..Len(systs) |-> systs[i].name_ \o BlkBin(block, bin)])
  \o (IF g.do_systematics_
      THEN PerProcess(backgrounds_, LAMBDA prc :
             ProcessFactors(prc, LAMBDA syst : syst.name_ \o BinPrc(bin, prc))
             \o FreeFactors(g.free_systematics_, bin, prc))
      ELSE <<>>)
  \o (IF g.do_mc_kappa_correction_
      THEN <<<<"kappamc">> \o BlkBin(block, bin)>> ELSE <<>>)

\* the factors of nbkg_<bin>, lines 815-835
FullFactors(g, block, bin) ==
  <<<<"nbkg_raw">> \o BlkBin(block, bin)>>
  \o (LET systs == SelectSeq(bin.systematics_,
                     LAMBDA syst : g.do_systematics_ /\ ~IsDilep(syst.name_))
      IN [i \in 1..Len(systs) |-> systs[i].name_ \o BlkBin(block, bin)])
  \o (IF g.do_systematics_
      THEN PerProcess(backgrounds_, LAMBDA prc :
             ProcessFactors(prc, LAMBDA syst : syst.name_ \o BinPrc(bin, prc))
             \o FreeFactors(g.free_systematics_, bin, prc))
      ELSE <<>>)
  \o (IF g.do_mc_kappa_correction_
      THEN <<<<"kappamc">> \o BlkBin(block, bin)>> ELSE <<>>)

\* void WorkspaceGenerator::AddFullBackgroundPredictions(const Block &block)
AddFullBackgroundPredictions(g, block) ==
  Factory(g, PerBin(block, LAMBDA bin :
    <<Decl("prod", <<"nbkg">> \o BlkBin(block, bin),
           FullFactors(g, block, bin), <<>>)>>))

\* void WorkspaceGenerator::AddSignalPredictions(const Block &block)
AddSignalPredictions(g, block) ==
  Factory(g, PerBin(block, LAMBDA bin :
    <<Decl("prod", <<"nsig">> \o BlkBin(block, bin),
           <<<<"r">>, <<"ymc">> \o BlkBinPrc(block, bin, signal_)>>
           \o (IF g.do_systematics_
               THEN ProcessFactors(signal_,
                      LAMBDA syst : syst.name_ \o BinPrc(bin, signal_))
                    \o FreeFactors(g.free_systematics_, bin, signal_)
               ELSE <<>>),
           <<>>)>>))

\* void WorkspaceGenerator::AddPdfs(const Block &block)
AddPdfs(g, block) ==
  LET bb(bin) == BlkBin(block, bin)
      kept == SelectSeq(BinsOf(block), LAMBDA bin : use_r4_ \/ ~Contains(bb(bin), <<"4">>))
  IN Factory(g,
       PerBin(block, LAMBDA bin :
         <<Decl("sum", <<"nexp">> \o bb(bin),
                <<<<"nbkg">> \o bb(bin), <<"nsig">> \o bb(bin)>>, <<>>)>>
         \o (IF use_r4_ \/ ~Contains(bb(bin), <<"4">>)
             THEN <<Decl("RooPoisson", <<"pdf_null">> \o bb(bin),
                         <<<<"nobs">> \o bb(bin), <<"nbkg">> \o bb(bin)>>, <<>>),
                    Decl("RooPoisson", <<"pdf_alt">> \o bb(bin),
                         <<<<"nobs">> \o bb(bin), <<"nexp">> \o bb(bin)>>, <<>>)>>
             ELSE <<>>))
       \o <<Decl("PROD", <<"pdf_null">> \o Blk(block),
                 [i \in 1..Len(kept) |-> <<"pdf_null">> \o bb(kept[i])], <<>>),
            Decl("PROD", <<"pdf_alt">> \o Blk(block),
                 [i \in 1..Len(kept) |-> <<"pdf_alt">> \o bb(kept[i])], <<>>)>>)

---------------------------------------------------------------------------
(* WorkspaceGenerator: UpdateWorkspace and the public operations *)

RECURSIVE SeqOfSet(_)
\* the elements of a finite set in one fixed order
SeqOfSet(S) ==
  IF S = {} THEN <<>>
  ELSE LET x == CHOOSE x \in S : TRUE IN <<x>> \o SeqOfSet(S \ {x})

\* void WorkspaceGenerator::AddDummyNuisance()
AddDummyNuisance(g) ==
  [Factory(g, <<Decl("RooGaussian", <<"pdf_dummy_nuisance">>, <<<<"dummy_nuisance">>>>,
                     <<<<"dummy_nuisance">>>>)>>)
   EXCEPT !.nuisances_ = @ \cup {<<"dummy_nuisance">>}]

\* the factors of model_b (lead = "pdf_null") and model_s (lead = "pdf_alt")
FullPdfFactors(g, lead) ==
  <<<<"pdf_dummy_nuisance">>>>
  \o [b \in 1..Len(g.blocks_) |-> <<lead>> \o Blk(g.blocks_[b])]
  \o (IF g.do_systematics_ \/ g.do_dilepton_
      THEN LET systs == SeqOfSet(g.systematics_)
           IN [i \in 1..Len(systs) |-> <<"constraint_">> \o systs[i]]
      ELSE <<>>)
  \o [b \in 1..Len(g.blocks_) |-> <<"pdf_mc_">> \o g.blocks_[b].name_]

\* variant: the constraints are factors of the null density only
AddFullPdfAltUnconstrained(g) ==
  Factory(g, <<Decl("PROD", <<"model_b">>, FullPdfFactors(g, "pdf_null"), <<>>),
               Decl("PROD", <<"model_s">>,
                    FullPdfFactors([g EXCEPT !.systematics_ = {}], "pdf_alt"),
                    <<>>)>>)

\* void WorkspaceGenerator::AddFullPdf()
AddFullPdf(g) ==
  Factory(g, <<Decl("PROD", <<"model_b">>, FullPdfFactors(g, "pdf_null"), <<>>),
               Decl("PROD", <<"model_s">>, FullPdfFactors(g, "pdf_alt"), <<>>)>>)

\* void WorkspaceGenerator::AddParameterSets()
AddParameterSets(g) ==
  [Factory(g, <<Decl("import", <<"data_obs">>, <<>>, <<>>)>>)
   EXCEPT !.w_.sets =
     [n \in {"POI", "nuisances", "observables", "globalObservables"} |->
        IF n = "POI" THEN g.poi_
        ELSE IF n = "nuisances" THEN g.nuisances_
        ELSE IF n = "observables" THEN g.observables_
        ELSE {}]]

\* void WorkspaceGenerator::AddModels()
\* a RooStats::ModelConfig as it is imported: its density and the names of
\* the sets given to SetParametersOfInterest, SetObservables,
\* SetNuisanceParameters and SetGlobalObservables
ModelConfig(name, pdf, poi, observables, nuisances, globals) ==
  [kind |-> "import", name |-> name, args |-> <<pdf>>, inline |-> <<>>,
   poi |-> poi, observables |-> observables, nuisances |-> nuisances,
   globals |-> globals]

AddModels(g) ==
  Factory(g, <<ModelConfig(<<"ModelConfig">>, <<"model_s">>, "POI",
                           "observables", "nuisances", "globalObservables"),
               ModelConfig(<<"ModelConfig_bonly">>, <<"model_b">>, "POI",
                           "observables", "nuisances", "globalObservables")>>)

\* the step is entered
Enter(g, phase, of) == [g EXCEPT !.w_.phases = Append(@, <<phase, of>>)]

\* variant: the ABCD parameters are declared after the raw predictions
AddBlockRawFirst(g, block) ==
  LET in == block.name_
      g1 == AddData(Enter(g, "AddData", in), block)
      g2 == AddMCYields(Enter(g1, "AddMCYields", in), block)
      g3 == AddMCPdfs(Enter(g2, "AddMCPdfs", in), block)
      g4 == AddMCProcessSums(Enter(g3, "AddMCProcessSums", in), block)
      g5 == AddBackgroundFractions(Enter(g4, "AddBackgroundFractions", in), block)
      g6 == AddRawBackgroundPredictions(Enter(g5, "AddRawBackgroundPredictions", in), block)
      g7 == AddABCDParameters(Enter(g6, "AddABCDParameters", in), block)
      g8 == IF g.do_mc_kappa_correction_
            THEN AddKappas(Enter(g7, "AddKappas", in), block) ELSE g7
      g9 == AddFullBackgroundPredictions(Enter(g8, "AddFullBackgroundPredictions", in), block)
      g10 == AddSignalPredictions(Enter(g9, "AddSignalPredictions", in), block)
  IN AddPdfs(Enter(g10, "AddPdfs", in), block)

\* lines 196-206 for one block
AddBlock(g, block) ==
  LET in == block.name_
      g1 == AddData(Enter(g, "AddData", in), block)
      g2 == AddMCYields(Enter(g1, "AddMCYields", in), block)
      g3 == AddMCPdfs(Enter(g2, "AddMCPdfs", in), block)
      g4 == AddMCProcessSums(Enter(g3, "AddMCProcessSums", in), block)
      g5 == AddBackgroundFractions(Enter(g4, "AddBackgroundFractions", in), block)
      g6 == AddABCDParameters(Enter(g5, "AddABCDParameters", in), block)
      g7 == AddRawBackgroundPredictions(Enter(g6, "AddRawBackgroundPredictions", in), block)
      g8 == IF g.do_mc_kappa_correction_
            THEN AddKappas(Enter(g7, "AddKappas", in), block) ELSE g7
      g9 == AddFullBackgroundPredictions(Enter(g8, "AddFullBackgroundPredictions", in), block)
      g10 == AddSignalPredictions(Enter(g9, "AddSignalPredictions", in), block)
  IN AddPdfs(Enter(g10, "AddPdfs", in), block)

RECURSIVE AddBlocks(_, _)
AddBlocks(g, blocks) ==
  IF blocks = <<>> THEN g ELSE AddBlocks(AddBlock(g, Head(blocks)), Tail(blocks))

WorkspaceName(toy_num) == IF toy_num # 0 THEN <<"w_", Dec(toy_num)>> ELSE <<"w">>

\* lines 178-184: the workspace is replaced by an empty one
NewWorkspace(g) ==
  [g EXCEPT !.w_ = Workspace(WorkspaceName(g.toy_num_), <<>>, NoSets)]

\* line 186: if(do_dilepton_) AddDileptonSystematic()
DileptonPhase(g, source) ==
  IF g.do_dilepton_
  THEN AddDileptonSystematic(Enter(g, "AddDileptonSystematic", <<>>), source)
  ELSE g

\* what ReadSystematicsFile leaves in g
AfterRead(g, read) ==
  [g |-> [g EXCEPT !.free_systematics_ = read.free_systematics_],
   threw |-> read.threw]

\* line 189: if(do_systematics_) ReadSystematicsFile()
ReadPhase(g) ==
  IF g.do_systematics_
  THEN AfterRead(Enter(g, "ReadSystematicsFile", <<>>),
                 ReadSystematicsFile(g))
  ELSE [g |-> g, threw |-> FALSE]

\* lines 192-214: the steps after the file is read
BuildPhases(g) ==
  LET g3 == AddPOI(Enter(g, "AddPOI", <<>>))
      g4 == AddSystematicsGenerators(Enter(g3, "AddSystematicsGenerators", <<>>))
      g5 == AddBlocks(g4, g.blocks_)
      g6 == AddDummyNuisance(Enter(g5, "AddDummyNuisance", <<>>))
      g7 == AddFullPdf(Enter(g6, "AddFullPdf", <<>>))
      g8 == AddParameterSets(Enter(g7, "AddParameterSets", <<>>))
      g9 == AddModels(Enter(g8, "AddModels", <<>>))
  IN [g9 EXCEPT !.w_is_valid_ = TRUE]

\* an exception of ReadSystematicsFile ends the rebuild where it is
AfterReadPhase(read) ==
  IF read.threw THEN read ELSE [g |-> BuildPhases(read.g), threw |-> FALSE]

\* void WorkspaceGenerator::UpdateWorkspace(); threw says that
\* ReadSystematicsFile threw, which ends the rebuild where it stands
UpdateWorkspace(g, source) ==
  AfterReadPhase(ReadPhase(DileptonPhase(NewWorkspace(g), source)))

---------------------------------------------------------------------------
(* State machine *)

NoCall == [op |-> "none"]

Init ==
  /\ yields_ = [s \in Slots |-> EmptyMap]
  /\ local_lumi_ = [m \in Managers |-> store_lumi_]
  /\ process \in Processes
  /\ dataset \in Datasets
  /\ process.entries_ = 0 => (dataset.bins = {} /\ dataset.hit = NumCuts)
  /\ ~AveragesMet(process) => (dataset.tru_bins = {} /\ ~dataset.tru_hit1)
  /\ nqueries = [c \in KeyClasses |-> 0]
  /\ computed_by = [c \in KeyClasses |-> {}]
  /\ last = NoCall
  /\ cut_idents = <<>>
  /\ mettru_s = <<>>
  /\ mettru_pc = "idle"
  /\ KeysIdle
  /\ GeneratorIdle

\* yields.Luminosity() = lumi
SetLuminosity(m, lumi) ==
  /\ local_lumi_[m] # lumi
  /\ local_lumi_' = [local_lumi_ EXCEPT ![m] = lumi]
  /\ last' = [op |-> "Luminosity"]
  /\ UNCHANGED <<yields_, process, dataset, nqueries, computed_by, restvars>>

\* GammaParams YieldManager::GetYield(const YieldKey &key) const
GetYield(m, key) ==
  \E map \in {yields_[Storage(m)]}, lumi \in {local_lumi_[m]} :
  \E cached \in {HaveYield(map, key)} :
  \E cy \in {IF cached THEN [map |-> map, gps |-> DefaultGammaParams,
                             queried |-> <<>>, level |-> -1]
                       ELSE ComputeYield(map, lumi, key)} :
     /\ yields_' = [yields_ EXCEPT ![Storage(m)] = cy.map]
     /\ nqueries' = [nqueries EXCEPT ![KeyClass(key)] = @ + Len(cy.queried)]
     /\ computed_by' = [computed_by EXCEPT ![KeyClass(key)] =
                          IF cached THEN @ ELSE @ \cup {m}]
     /\ last' = [op |-> "GetYield", mgr |-> m, key |-> key, lumi |-> lumi,
                 computed |-> ~cached,
                 threw |-> ~HaveYield(cy.map, key),
                 ret |-> IF HaveYield(cy.map, key)
                         THEN GetCachedYield(cy.map, lumi, key)
                         ELSE DefaultGammaParams,
                 queried |-> cy.queried, level |-> cy.level, gps |-> cy.gps]
     /\ UNCHANGED <<local_lumi_, process, dataset, restvars>>

\* void YieldManager::ComputeYield(const YieldKey &key) const, called directly
CallComputeYield(m, key) ==
  \E map \in {yields_[Storage(m)]}, lumi \in {local_lumi_[m]} :
  \E cy \in {ComputeYield(map, lumi, key)} :
     /\ yields_' = [yields_ EXCEPT ![Storage(m)] = cy.map]
     /\ nqueries' = [nqueries EXCEPT ![KeyClass(key)] = @ + Len(cy.queried)]
     /\ computed_by' = [computed_by EXCEPT ![KeyClass(key)] =
                          IF HaveYield(map, key) THEN @ ELSE @ \cup {m}]
     /\ last' = [op |-> "ComputeYield", key |-> key, lumi |-> lumi,
                 cached |-> HaveYield(map, key)]
     /\ UNCHANGED <<local_lumi_, process, dataset, restvars>>

Next ==
  \/ \E m \in Managers, lumi \in Lumis : SetLuminosity(m, lumi)
  \/ \E m \in Managers, key \in Keys : GetYield(m, key)
  \/ \E m \in Managers, key \in Keys : CallComputeYield(m, key)

Spec == Init /\ [][Next]_vars

---------------------------------------------------------------------------
(* One manager and every answer of the event source to the five            *)
(* selections, also that no selection keeps an event                       *)

LadderDatasets ==
  Datasets \cup [bins : {{}}, hit : {NumCuts + 1}, tru_bins : {{}}, tru_hit1 : BOOLEAN]

InitLadder ==
  /\ yields_ = [s \in Slots |-> EmptyMap]
  /\ local_lumi_ = [m \in Managers |-> store_lumi_]
  /\ process \in Processes
  /\ dataset \in LadderDatasets
  /\ process.entries_ = 0 => (dataset.bins = {} /\ dataset.hit = NumCuts)
  /\ ~AveragesMet(process) => (dataset.tru_bins = {} /\ ~dataset.tru_hit1)
  /\ nqueries = [c \in KeyClasses |-> 0]
  /\ computed_by = [c \in KeyClasses |-> {}]
  /\ last = NoCall
  /\ cut_idents = <<>>
  /\ mettru_s = <<>>
  /\ mettru_pc = "idle"
  /\ KeysIdle
  /\ GeneratorIdle

NextLadder ==
  \/ \E lumi \in Lumis : SetLuminosity(1, lumi)
  \/ \E key \in Keys : GetYield(1, key)

SpecLadder == InitLadder /\ [][NextLadder]_vars

---------------------------------------------------------------------------
(* The rewriting of the selection string of a signal process, on strings *)

InitMetTru ==
  /\ yields_ = [s \in Slots |-> EmptyMap]
  /\ local_lumi_ = [m \in Managers |-> store_lumi_]
  /\ process = [name_ |-> sig, is_data_ |-> FALSE, is_signal_ |-> TRUE,
                count_zeros_ |-> TRUE, entries_ |-> 1]
  /\ dataset = [bins |-> BinCuts, hit |-> 1, tru_bins |-> BinCuts, tru_hit1 |-> TRUE]
  /\ nqueries = [c \in KeyClasses |-> 0]
  /\ computed_by = [c \in KeyClasses |-> {}]
  /\ last = NoCall
  /\ cut_idents \in IdentSeqs
  /\ mettru_s = JoinIdents(cut_idents)
  /\ mettru_pc = "start"
  /\ KeysIdle
  /\ GeneratorIdle

\* lines 95-98 of ComputeYield: mettru_s = this_cut.GetCut(), then the ReplaceAll calls
BuildMetTruString ==
  /\ mettru_pc = "start"
  /\ mettru_s' = MetTruString(mettru_s)
  /\ mettru_pc' = "done"
  /\ UNCHANGED <<ymvars, cut_idents, keyvars, wgvars>>

NextMetTru == BuildMetTruString

SpecMetTru == InitMetTru /\ [][NextMetTru]_vars

---------------------------------------------------------------------------
(* Two yield requests with independently constructed keys *)

\* the yield manager and the string rewriting at rest, the static yields_ of
\* the generators left at lumi by the generators that used it before
YieldsLeftAt(lumi) ==
  /\ yields_ = [s \in Slots |-> EmptyMap]
  /\ local_lumi_ = [m \in Managers |-> IF m = SharedManager THEN lumi ELSE store_lumi_]
  /\ process = [name_ |-> sig, is_data_ |-> FALSE, is_signal_ |-> TRUE,
                count_zeros_ |-> TRUE, entries_ |-> 1]
  /\ dataset = [bins |-> BinCuts, hit |-> 1, tru_bins |-> BinCuts, tru_hit1 |-> TRUE]
  /\ nqueries = [c \in KeyClasses |-> 0]
  /\ computed_by = [c \in KeyClasses |-> {}]
  /\ last = NoCall

\* the yield manager and the string rewriting at rest
YieldsAtRest == YieldsLeftAt(store_lumi_)

MetTruIdle ==
  /\ cut_idents = <<>>
  /\ mettru_s = <<>>
  /\ mettru_pc = "idle"

InitKeys ==
  /\ YieldsAtRest
  /\ MetTruIdle
  /\ key_first \in KeyObjects
  /\ key_second \in KeyObjects
  /\ key_map = EmptyMap
  /\ key_hit = FALSE
  /\ key_pc = "start"
  /\ GeneratorIdle

\* the value a request leaves in the cache
RequestedYield == GammaParams(Rat(1), Rat(1))

\* GetYield(key_first): if(!HaveYield(key)) ComputeYield(key)
RequestFirst ==
  /\ key_pc = "start"
  /\ key_map' = IF HaveYield(key_map, key_first) THEN key_map
                ELSE Put(key_map, key_first, RequestedYield)
  /\ key_pc' = "first"
  /\ UNCHANGED <<ymvars, strvars, wgvars, key_first, key_second, key_hit>>

\* GetYield(key_second)
RequestSecond ==
  /\ key_pc = "first"
  /\ key_hit' = HaveYield(key_map, key_second)
  /\ key_map' = IF HaveYield(key_map, key_second) THEN key_map
                ELSE Put(key_map, key_second, RequestedYield)
  /\ key_pc' = "second"
  /\ UNCHANGED <<ymvars, strvars, wgvars, key_first, key_second>>

NextKeys == RequestFirst \/ RequestSecond

SpecKeys == InitKeys /\ [][NextKeys]_vars

---------------------------------------------------------------------------
(* A WorkspaceGenerator through its public operations *)

line_systematic_lumi == <<"S", "Y", "S", "T", "E", "M", "A", "T", "I", "C", " ", "l", "u", "m", "i">>
line_systematic_xsec == <<"S", "Y", "S", "T", "E", "M", "A", "T", "I", "C", " ", "x", "s", "e", "c">>
line_processes_tt_other == <<"P", "R", "O", "C", "E", "S", "S", "E", "S", " ", "t", "t", ",", "o", "t", "h", "e", "r">>
line_processes_sig == <<"P", "R", "O", "C", "E", "S", "S", "E", "S", " ", "s", "i", "g">>
line_r1_half == <<"r", "1", " ", "0", ".", "5">>
line_r2_eq_2 == <<"r", "2", " ", "=", " ", "2">>
line_r1_alone == <<"r", "1">>
line_comment == <<"#", "c">>

GoodFile ==
  File("syst.txt", <<line_comment, line_systematic_lumi,
                     line_processes_tt_other, line_r1_half>>)
\* a file whose second line has one word
BadFile == File("bad.txt", <<line_systematic_xsec, line_r1_alone>>)

GenFiles == {NoFile, GoodFile, BadFile}
GenLumis == {1, initial_luminosity}
ToyNums == {0, 1}

InitGen ==
  /\ \E lumi \in GenLumis : YieldsLeftAt(lumi)
  /\ MetTruIdle
  /\ KeysIdle
  /\ \E file \in GenFiles : GenIs(Constructed(ConfiguredBlocks(TRUE), file))
  /\ dilep_source = FixedSource
  /\ bin_source = FixedYields
  /\ wg_last = [op |-> "none"]
  /\ wg_calls = 0

notgenvars == <<ymvars, strvars, keyvars, dilep_source, bin_source>>

\* the static yields_ of the generators has the luminosity that g leaves in
\* it, and nothing else outside the generator changes
ManagerBecomes(g) ==
  /\ local_lumi_' = [local_lumi_ EXCEPT ![SharedManager] = g.manager_luminosity]
  /\ UNCHANGED <<yields_, process, dataset, nqueries, computed_by, last,
                 strvars, keyvars, dilep_source, bin_source>>

\* one more call on the generator, of at most MaxCalls
Called ==
  /\ wg_calls < MaxCalls
  /\ wg_calls' = wg_calls + 1

\* variant: the validity flag is cleared whatever the value
InvalidatingAlways(field, value) ==
  [Gen EXCEPT ![field] = value, !.w_is_valid_ = FALSE]

\* a setter that assigns field and clears the validity flag when the value is new
Invalidating(field, value) ==
  IF Gen[field] # value
  THEN [Gen EXCEPT ![field] = value, !.w_is_valid_ = FALSE]
  ELSE Gen

\* variant: the luminosity is assigned and the validity flag is left alone
GenSetLuminosityKeepsFlag(luminosity) ==
  /\ Called
  /\ GenBecomes([Gen EXCEPT !.luminosity_ = luminosity])
  /\ wg_last' = [op |-> "SetLuminosity", arg |-> luminosity]
  /\ UNCHANGED notgenvars

\* WorkspaceGenerator & WorkspaceGenerator::SetLuminosity(double luminosity)
GenSetLuminosity(luminosity) ==
  /\ Called
  /\ GenBecomes(Invalidating("luminosity_", luminosity))
  /\ wg_last' = [op |-> "SetLuminosity", arg |-> luminosity]
  /\ UNCHANGED notgenvars

SetDoSystematics(do_systematics) ==
  /\ Called
  /\ GenBecomes(Invalidating("do_systematics_", do_systematics))
  /\ wg_last' = [op |-> "SetDoSystematics", arg |-> do_systematics]
  /\ UNCHANGED notgenvars

SetDoDilepton(do_dilepton) ==
  /\ Called
  /\ GenBecomes(Invalidating("do_dilepton_", do_dilepton))
  /\ wg_last' = [op |-> "SetDoDilepton", arg |-> do_dilepton]
  /\ UNCHANGED notgenvars

SetKappaCorrected(do_kappa_correction) ==
  /\ Called
  /\ GenBecomes(Invalidating("do_mc_kappa_correction_", do_kappa_correction))
  /\ wg_last' = [op |-> "SetKappaCorrected", arg |-> do_kappa_correction]
  /\ UNCHANGED notgenvars

SetToyNum(toy_num) ==
  /\ Called
  /\ GenBecomes(Invalidating("toy_num_", toy_num))
  /\ wg_last' = [op |-> "SetToyNum", arg |-> toy_num]
  /\ UNCHANGED notgenvars

SetPrintLevel(print_level) ==
  /\ Called
  /\ GenBecomes([Gen EXCEPT !.print_level_ = print_level])
  /\ wg_last' = [op |-> "SetPrintLevel", arg |-> print_level]
  /\ UNCHANGED notgenvars

\* variant: the workspace is rebuilt only when it is valid
NeedsRebuildInverted(g) == g.w_is_valid_

\* if(!w_is_valid_) UpdateWorkspace()
NeedsRebuild(g) == ~g.w_is_valid_

\* void WorkspaceGenerator::WriteToFile(const string &file_name)
WriteToFile ==
  \E res \in {IF NeedsRebuild(Gen) THEN UpdateWorkspace(Gen, dilep_source)
                ELSE [g |-> Gen, threw |-> FALSE]} :
    /\ Called
    /\ GenBecomes(res.g)
    /\ wg_last' = [op |-> "WriteToFile", rebuilt |-> NeedsRebuild(Gen),
                   threw |-> res.threw, wrote |-> ~res.threw,
                   manager_before |-> local_lumi_[SharedManager]]
    /\ ManagerBecomes(res.g)

NextGen ==
  \/ \E luminosity \in GenLumis : GenSetLuminosity(luminosity)
  \/ \E b \in BOOLEAN : SetDoSystematics(b)
  \/ \E b \in BOOLEAN : SetDoDilepton(b)
  \/ \E b \in BOOLEAN : SetKappaCorrected(b)
  \/ \E toy_num \in ToyNums : SetToyNum(toy_num)
  \/ \E print_level \in PrintLevels : SetPrintLevel(print_level)
  \/ WriteToFile

SpecGen == InitGen /\ [][NextGen]_vars

---------------------------------------------------------------------------
(* The dilepton step on its own, over the yields of the dilepton bins *)

MaxCount == 4

\* a yield of n events of weight 1
Counted(n) == GammaParams(Rat(n), Rat(1))

DilepSources ==
  {SourceOf(Counted(d), Counted(t), Counted(o)) :
     d \in 0..MaxCount, t \in 0..MaxCount, o \in 0..MaxCount}

InitDilep ==
  /\ YieldsAtRest
  /\ MetTruIdle
  /\ KeysIdle
  /\ \E blind \in BOOLEAN, luminosity \in GenLumis, baseline \in Baselines :
        GenIs([Constructed(ConfiguredBlocks(blind), NoFile)
                 EXCEPT !.luminosity_ = luminosity, !.baseline_ = baseline])
  /\ dilep_source \in DilepSources
  /\ bin_source = FixedYields
  /\ wg_last = [op |-> "none"]
  /\ wg_calls = 0

\* if(do_dilepton_) AddDileptonSystematic()
DileptonStep ==
  /\ wg_calls = 0
  /\ do_dilepton_
  /\ GenBecomes(AddDileptonSystematic(Gen, dilep_source))
  /\ wg_last' = [op |-> "AddDileptonSystematic"]
  /\ wg_calls' = 1
  /\ ManagerBecomes(AddDileptonSystematic(Gen, dilep_source))

NextDilep == DileptonStep

SpecDilep == InitDilep /\ [][NextDilep]_vars

---------------------------------------------------------------------------
(* Reading a systematics file on its own, over the files of at most        *)
(* MaxLines lines                                                          *)

ReadLines ==
  {line_systematic_lumi, line_systematic_xsec, line_processes_tt_other,
   line_processes_sig, line_r1_half, line_r2_eq_2, line_r1_alone}

ReadFiles ==
  {File("syst.txt", lines) :
     lines \in UNION {[1..n -> ReadLines] : n \in 1..MaxLines}}

InitRead ==
  /\ YieldsAtRest
  /\ MetTruIdle
  /\ KeysIdle
  /\ \E file \in ReadFiles : GenIs(Constructed(ConfiguredBlocks(TRUE), file))
  /\ dilep_source = FixedSource
  /\ bin_source = FixedYields
  /\ wg_last = [op |-> "none"]
  /\ wg_calls = 0

\* if(do_systematics_) ReadSystematicsFile()
ReadStep ==
  \E read \in {ReadSystematicsFile(Gen)} :
    /\ wg_calls = 0
    /\ do_systematics_
    /\ GenBecomes([Gen EXCEPT !.free_systematics_ = read.free_systematics_])
    /\ wg_last' = [op |-> "ReadSystematicsFile", threw |-> read.threw]
    /\ wg_calls' = 1
    /\ UNCHANGED notgenvars

NextRead == ReadStep

SpecRead == InitRead /\ [][NextRead]_vars

---------------------------------------------------------------------------
(* The first rebuild of a generator with a block of two rows and two       *)
(* columns and a block of one bin, over the yields of the bins             *)

MaxYield == 1

name_r3 == <<"r", "3">>
name_r4 == <<"r", "4">>
name_r5 == <<"r", "5">>
GridBinNames == {name_r1, name_r2, name_r3, name_r4, name_r5}

\* r3 and r4 are single-lepton bins with an mt cut
GridBlocksNamed(blind, second, bin) ==
  <<Block(<<"b", "l", "k">>,
      <<<<GenBin(name_r1, <<"m", "t", "<", "=", "1", "4", "0">>, blind, <<>>),
          GenBin(name_r2, <<"m", "t", "<", "=", "1", "4", "0">>, blind, <<BinSystematic>>)>>,
        <<GenBin(name_r3, <<"m", "t", ">", "1", "4", "0">>, blind, <<>>),
          GenBin(name_r4, <<"m", "t", ">", "1", "4", "0", "&", "&", "h">>, blind, <<>>)>>>>),
    Block(second,
      <<<<GenBin(bin, <<"h">>, blind, <<>>)>>>>)>>

name_b2 == <<"b", "2">>
name_b4 == <<"b", "4">>
\* the names the second block is given
SecondBlockNames == {name_b2, name_b4}

\* the names the bin of the second block is given: its own, or the name of
\* the first bin of the first block
SecondBinNames == {name_r5, name_r1}

GridBlocks(blind) == GridBlocksNamed(blind, name_b2, name_r5)

\* the yields of the bins: tt[b] events of tt and other events of other in
\* bin b, three events of data and one of signal, all of weight 1
GridYields(tt, other) ==
  [b \in GridBinNames |->
     [n \in {data_.name_, name_tt, name_other, sig} |->
        GammaParams(Rat(IF n = name_tt THEN tt[b]
                        ELSE IF n = name_other THEN other
                        ELSE IF n = sig THEN 1 ELSE 3),
                    Rat(1))]]

GridSources ==
  {GridYields([b \in GridBinNames |-> IF b = name_r5 THEN 1 ELSE tt[b]], other) :
     tt \in [GridBinNames \ {name_r5} -> 0..MaxYield], other \in 0..1}

GridDilepSource ==
  [b \in GridBinNames |->
     [n \in {data_.name_, name_tt, name_other} |-> GammaParams(Rat(2), Rat(1))]]

SigStrengths == {0, 2}

\* the yields of the grid with every background yield equal to 1
UnitYields == GridYields([b \in GridBinNames |-> 1], 1)

\* a generator on the grid: either with the policies of its construction,
\* over every grid of yields, or with every choice of file and policies (set
\* before the first WriteToFile), over one grid of yields
InitBlock ==
  /\ YieldsAtRest
  /\ MetTruIdle
  /\ KeysIdle
  /\ \E blind \in BOOLEAN, luminosity \in GenLumis,
        toy_num \in ToyNums, sig_strength \in SigStrengths :
       \/ /\ bin_source \in GridSources
          /\ GenIs([Constructed(GridBlocks(blind), GoodFile) EXCEPT
                      !.luminosity_ = luminosity,
                      !.toy_num_ = toy_num,
                      !.sig_strength_ = sig_strength])
       \/ /\ bin_source = UnitYields
          /\ luminosity = initial_luminosity /\ toy_num = 0
          /\ \E file \in GenFiles, do_systematics \in BOOLEAN,
                do_dilepton \in BOOLEAN, do_kappa_correction \in BOOLEAN,
                second \in SecondBlockNames, bin \in SecondBinNames :
               GenIs([Constructed(GridBlocksNamed(blind, second, bin), file) EXCEPT
                        !.sig_strength_ = sig_strength,
                        !.do_systematics_ = do_systematics,
                        !.do_dilepton_ = do_dilepton,
                        !.do_mc_kappa_correction_ = do_kappa_correction])
  /\ dilep_source = GridDilepSource
  /\ wg_last = [op |-> "none"]
  /\ wg_calls = 0

\* the first WriteToFile of the generator
FirstWriteToFile == wg_calls = 0 /\ WriteToFile

NextBlock == FirstWriteToFile

SpecBlock == InitBlock /\ [][NextBlock]_vars

---------------------------------------------------------------------------
(* Properties of YieldManager *)

IsGetYield(call) == call.op = "GetYield"

\* structural equality of two keys, written out field by field
StructurallyEqual(k1, k2) ==
  /\ GetBin(k1).cut_ = GetBin(k2).cut_
  /\ GetBin(k1).systematics_ = GetBin(k2).systematics_
  /\ GetProcess(k1) = GetProcess(k2)
  /\ GetCut(k1) = GetCut(k2)

\* the value the program's one cache holds for the key of a call
Stored(call) == yields_[0][<<<<GetBin(call.key).cut_, GetBin(call.key).systematics_>>,
                             GetProcess(call.key), GetCut(call.key)>>]
IsStored(call) ==
  <<<<GetBin(call.key).cut_, GetBin(call.key).systematics_>>,
    GetProcess(call.key), GetCut(call.key)>> \in DOMAIN yields_[0]

\* number of Process::GetYield calls one pass of the ladder makes
PerLevel == IF Contains(process.name_, sig) THEN 2 ELSE 1

\* what a manager whose cache is empty returns for the key at luminosity lumi
Direct(lumi, key) ==
  GetCachedYield(ComputeYield(EmptyMap, lumi, key).map, lumi, key)

\* C1: two successive GetYield calls with structurally equal keys (the key
\* objects may differ) at the same manager luminosity return the same
\* GammaParams: same N_effective, same weight.
C1_SameResultTwice ==
  [][(/\ IsGetYield(last) /\ IsGetYield(last')
      /\ StructurallyEqual(last.key, last'.key)
      /\ last.lumi = last'.lumi)
     => (/\ last'.ret.n_effective_ = last.ret.n_effective_
         /\ last'.ret.weight_ = last.ret.weight_)]_vars

\* a call with a key object other than the one that filled the cache is
\* answered from the cache with a positive yield
C1_Witness ==
  /\ IsGetYield(last) /\ ~last.computed
  /\ GetBin(last.key).name_ = "r1_copy"
  /\ RPos(Yield(last.ret))

\* C2 as stated: the calls for one logical key make at most one
\* Process::GetYield query in total.
C2_AtMostOneQuery == \A c \in KeyClasses : nqueries[c] <= 1

\* C2 amended: a GetYield for a key that has been computed makes no query;
\* all queries for a key are made by the one call that computes it, one per
\* ladder level tried, two per level when the met average is taken.
C2_NoQueryOnceComputed ==
  [][\A c \in KeyClasses :
       /\ computed_by[c] # {} => nqueries'[c] = nqueries[c]
       /\ nqueries'[c] <= NumCuts * PerLevel]_vars

\* a second call on a key whose computation took several queries
C2_Witness ==
  /\ IsGetYield(last) /\ ~last.computed
  /\ nqueries[KeyClass(last.key)] > 1

\* C3: for a process that is not data, what GetYield returns at the
\* manager's luminosity equals what a manager with an empty cache returns
\* for the key at that luminosity, whatever luminosity the cache was filled at.
C3_LumiRoundTrip ==
  (IsGetYield(last) /\ ~process.is_data_)
    => last.ret = Direct(last.lumi, last.key)

\* C4: for a data process GetYield returns the unscaled result of the
\* computation at every luminosity, the cache holds that same value, and no
\* selection queried carries a luminosity weight.
C4_DataNotRescaled ==
  (IsGetYield(last) /\ process.is_data_)
    => /\ \A lumi \in Lumis : last.ret = ComputeYield(EmptyMap, lumi, last.key).gps
       /\ IsStored(last) /\ Stored(last) = last.ret
       /\ \A i \in 1..Len(last.queried) : last.queried[i].weight = 0

\* a data yield with events, served from the cache away from store_lumi_
C4_Witness ==
  /\ IsGetYield(last) /\ process.is_data_
  /\ ~last.computed /\ last.lumi # store_lumi_
  /\ RPos(Yield(last.ret))

\* C5: GetYield for a process without entries returns N_effective 0 and
\* weight 0, raises no error, leaves that value in the cache and makes no
\* Process::GetYield query.
C5_NoEntriesIsZero ==
  (IsGetYield(last) /\ process.entries_ = 0)
    => /\ last.ret = GammaParams(Rat(0), Rat(0))
       /\ ~last.threw
       /\ IsStored(last) /\ Stored(last) = GammaParams(Rat(0), Rat(0))
       /\ last.queried = <<>>
       /\ nqueries[KeyClass(last.key)] = 0

\* the call that computed the yield of a process without entries
C5_Witness ==
  /\ IsGetYield(last) /\ process.entries_ = 0 /\ last.computed

\* C6: once any instance has computed a key, a GetYield for a structurally
\* equal key on any instance is answered from the cache: it computes
\* nothing and queries nothing.
C6_CacheShared ==
  [][(IsGetYield(last') /\ computed_by[KeyClass(last'.key)] # {})
     => (/\ ~last'.computed
         /\ nqueries' = nqueries
         /\ computed_by' = computed_by)]_vars

\* an instance is answered from the cache for a key another instance computed
C6_Witness ==
  /\ IsGetYield(last) /\ ~last.computed
  /\ computed_by[KeyClass(last.key)] # {}
  /\ last.mgr \notin computed_by[KeyClass(last.key)]
  /\ RPos(Yield(last.ret))

\* the selection of ladder level k among the queries of a call
LevelCut(call, k) == call.queried[k * PerLevel + 1]

Level0NotPositive(call) ==
  RLeqZero(LevelYield(process, LevelCut(call, 0)).weight_)

TriedLooser(call) == Len(call.queried) > PerLevel

RanLadder(call) == IsGetYield(call) /\ call.computed /\ call.queried # <<>>

C8_StoredIsLevelResult ==
  (IsGetYield(last) /\ last.computed /\ last.level >= 0)
    => IF last.level > 0
       THEN /\ Stored(last).n_effective_ = Rat(0)
            /\ Stored(last).weight_ =
                 LevelYield(process, LevelCut(last, last.level)).weight_
       ELSE Stored(last) = LevelYield(process, LevelCut(last, 0))

\* C8 amended: as stated, with the weight multiplied by
\* store_lumi_/local_lumi_ for a process that is not data.
C8_StoredIsScaledLevelResult ==
  (IsGetYield(last) /\ last.computed /\ last.level >= 0)
    => LET f == IF process.is_data_ THEN <<1, 1>> ELSE Norm(store_lumi_, last.lumi)
           lev == LevelYield(process, LevelCut(last, last.level))
       IN /\ Stored(last).weight_ = RMul(f, lev.weight_)
          /\ IF last.level > 0
             THEN Stored(last).n_effective_ = Rat(0) /\ Yield(Stored(last)) = Rat(0)
             ELSE Stored(last).n_effective_ = lev.n_effective_

\* a looser level with events gave the weight, away from store_lumi_
C8_Witness ==
  /\ IsGetYield(last) /\ last.computed /\ last.level > 0
  /\ ~process.is_data_ /\ last.lumi # store_lumi_
  /\ RPos(Stored(last).weight_)
  /\ RPos(LevelYield(process, LevelCut(last, last.level)).n_effective_)

LevelsRun(call) == IF call.level < 0 THEN 1 ELSE call.level + 1

AveragedAtEveryLevel(call) ==
  /\ Len(call.queried) = 2 * LevelsRun(call)
  /\ \A i \in 1..LevelsRun(call) :
       call.queried[2 * i] = MetTruCut(call.queried[2 * i - 1])
  /\ call.level >= 0 =>
       call.gps.weight_ =
         RMul(<<1, 2>>, Add(ProcessGetYield(call.queried[2 * call.level + 1]),
                            ProcessGetYield(call.queried[2 * call.level + 2])).weight_)

AveragedAtNoLevel(call) ==
  /\ Len(call.queried) = LevelsRun(call)
  /\ \A i \in 1..Len(call.queried) : call.queried[i].met = "met"
  /\ call.level >= 0 =>
       call.gps.weight_ = ProcessGetYield(call.queried[call.level + 1]).weight_

\* C9: every ladder level of a signal process is the average of the nominal
\* and the truth selection, and no level of another process is.
C9_AveragedIffSignal ==
  RanLadder(last)
    => IF process.is_signal_ THEN AveragedAtEveryLevel(last)
                             ELSE AveragedAtNoLevel(last)

\* C10: the truth selection is the nominal one with each occurrence of the
\* variable met replaced by met_tru and every other identifier unchanged.
C10_OnlyMetReplaced ==
  mettru_pc = "done"
    => mettru_s = JoinIdents([i \in 1..Len(cut_idents) |->
                                IF cut_idents[i] = met THEN met_tru
                                                       ELSE cut_idents[i]])

\* C11: two yield requests hit the same cache entry if and only if their bins
\* have equal cut and equal systematic lists, their processes are equal and
\* their cuts are equal; neither the bin name nor the identity of the key
\* object takes part.
C11_SameEntryIffStructurallyEqual ==
  key_pc = "second" =>
    (key_hit <=>
       /\ GetBin(key_first).cut_ = GetBin(key_second).cut_
       /\ GetBin(key_first).systematics_ = GetBin(key_second).systematics_
       /\ GetProcess(key_first) = GetProcess(key_second)
       /\ GetCut(key_first) = GetCut(key_second))

\* the second request hit the entry of a key with another bin name
C11_Witness ==
  /\ key_pc = "second"
  /\ key_hit
  /\ GetBin(key_first).name_ # GetBin(key_second).name_
  /\ DOMAIN key_map = {KeyComparisonTuple(key_first)}

\* the operation of the step that leads to the next state
StepOf(op) == wg_last'.op = op

\* a setter step on the current value of the setting
SetterStep(op, current) ==
  StepOf(op) =>
    IF wg_last'.arg # current THEN ~w_is_valid_' ELSE Gen' = Gen

\* C12: WriteToFile rebuilds if and only if the validity flag is false on
\* entry, the flag is true whenever it returns normally, and a newly
\* constructed generator is invalid and stays so until a WriteToFile, so
\* that its first WriteToFile rebuilds.
C12_RebuildIffInvalid ==
  /\ ~w_is_valid_
  /\ [][IF StepOf("WriteToFile")
        THEN /\ (wg_last'.rebuilt <=> ~w_is_valid_)
             /\ (~wg_last'.threw => w_is_valid_')
             /\ (w_.calls = <<>> => wg_last'.rebuilt)
        ELSE w_is_valid_' => w_is_valid_]_vars

\* a WriteToFile on a valid workspace, which an earlier WriteToFile built
C12_Witness ==
  /\ wg_last.op = "WriteToFile"
  /\ ~wg_last.rebuilt
  /\ wg_last.wrote
  /\ w_is_valid_
  /\ w_.calls # <<>>

\* C13: each of SetLuminosity, SetDoSystematics, SetDoDilepton,
\* SetKappaCorrected and SetToyNum clears the validity flag if and only if
\* the new value differs from the current one and changes nothing when it
\* does not; SetPrintLevel never changes the flag.
C13_SettersInvalidateOnChange ==
  [][/\ SetterStep("SetLuminosity", luminosity_)
     /\ SetterStep("SetDoSystematics", do_systematics_)
     /\ SetterStep("SetDoDilepton", do_dilepton_)
     /\ SetterStep("SetKappaCorrected", do_mc_kappa_correction_)
     /\ SetterStep("SetToyNum", toy_num_)
     /\ (StepOf("SetPrintLevel") => w_is_valid_' = w_is_valid_)]_vars

\* a workspace built by the first call and invalidated by the second, a
\* SetToyNum with a new value
C13_Witness ==
  /\ wg_calls = 2
  /\ wg_last.op = "SetToyNum"
  /\ wg_last.arg = toy_num_
  /\ w_.sets # NoSets
  /\ ~w_is_valid_

\* a WriteToFile step whose rebuild ran to its end
RebuildStep == StepOf("WriteToFile") /\ wg_last'.rebuilt /\ ~wg_last'.threw

\* the names a workspace declares
DeclaredNames(w) ==
  {w.calls[i].name : i \in 1..Len(w.calls)}
  \cup UNION {Range(w.calls[i].inline) : i \in 1..Len(w.calls)}

\* the first rebuild of a newly constructed generator that has the
\* constructor inputs and the settings of g
FreshRebuild(g) ==
  UpdateWorkspace(
    [Constructed(ConfiguredBlocks(TRUE), g.systematics_file_) EXCEPT
       !.luminosity_ = g.luminosity_,
       !.print_level_ = g.print_level_,
       !.do_systematics_ = g.do_systematics_,
       !.do_dilepton_ = g.do_dilepton_,
       !.do_mc_kappa_correction_ = g.do_mc_kappa_correction_,
       !.toy_num_ = g.toy_num_,
       !.sig_strength_ = g.sig_strength_],
    dilep_source).g

\* C14: a rebuild after any earlier rebuilds and setting changes declares
\* the same names and registers the same POI, nuisance and observable sets
\* as the first rebuild of a new generator with the same inputs and settings.
C14_RebuildFromScratch ==
  [][RebuildStep =>
       /\ DeclaredNames(w_') = DeclaredNames(FreshRebuild(Gen).w_)
       /\ w_'.sets = FreshRebuild(Gen).w_.sets]_vars

\* the number of factory calls of w that declare name
DeclCount(w, name) == Cardinality({i \in 1..Len(w.calls) : w.calls[i].name = name})

\* the names of the systematics attached to a bin or a process or read as
\* free systematics
SystematicNames(g) ==
  {syst.name_ : syst \in UNION {Range(bin.systematics_) : bin \in Range(AllBins(g.blocks_))}}
  \cup {syst.name_ : syst \in UNION {Range(prc.systematics_) : prc \in Range(all_prcs)}}
  \cup {syst.name_ : syst \in Range(g.free_systematics_)}

\* C15: in every rebuild, the first and every later one, each distinct
\* systematic name attached to a bin or a process or read as a free
\* systematic has exactly one constraint declared in the rebuilt workspace.
C15_OneConstraintPerName ==
  [][RebuildStep =>
       \A name \in SystematicNames(Gen') :
          DeclCount(w_', <<"constraint_">> \o name) = 1]_vars

\* the systematics of bin that are called dilep_<bin>
DilepSystematics(bin) ==
  SelectSeq(bin.systematics_, LAMBDA syst : syst.name_ = dilep_ \o bin.name_)

\* the dilepton yield Y of a bin: the data yield, or for a blind bin the
\* background yields at the luminosity of the generator
ExpectedDilepYield(bin) ==
  IF bin.blind_
  THEN RMul(RDiv(Rat(luminosity_), Rat(store_lumi_)),
            RAdd(Yield(dilep_source[bin.name_][name_tt]),
                 Yield(dilep_source[bin.name_][name_other])))
  ELSE Yield(dilep_source[bin.name_][data_.name_])

\* strength is 1/sqrt(y)
IsInvSqrtOf(strength, y) ==
  /\ RPos(strength.rat)
  /\ RMul(RDiv(RMul(strength.rat, strength.rat), strength.surd), y) = Rat(1)

\* C16: every bin that qualifies for the dilepton step carries the
\* systematic dilep_<bin>, of strength 1/sqrt(Y) when the dilepton yield Y
\* is greater than 1 and of strength exactly 1 when Y is at most 1.
C16_DilepStrength ==
  wg_last.op = "AddDileptonSystematic" =>
    \A bin \in Range(AllBins(blocks_)) :
       NeedsDileptonBin(bin) =>
         /\ Len(DilepSystematics(bin)) = 1
         /\ LET y == ExpectedDilepYield(bin)
                strength == DilepSystematics(bin)[1].strength_
            IN IF RGreater(y, Rat(1)) THEN IsInvSqrtOf(strength, y)
               ELSE strength = Exact(Rat(1))

\* a blind qualifying bin whose dilepton yield 5/4 gives a strength below 1
C16_Witness ==
  /\ wg_last.op = "AddDileptonSystematic"
  /\ \E bin \in Range(AllBins(blocks_)) :
        /\ NeedsDileptonBin(bin)
        /\ bin.blind_
        /\ ExpectedDilepYield(bin) = <<5, 4>>
        /\ Len(DilepSystematics(bin)) = 1
        /\ DilepSystematics(bin)[1].strength_ # Exact(Rat(1))

\* the words of the lines of the systematics file that are read
FileWords == WordsOf(systematics_file_.lines)
IsHeaderLine(words, i) == words[i][1] = SYSTEMATIC
IsProcessesLine(words, i) == words[i][1] = PROCESSES
IsBinLine(words, i) == ~IsHeaderLine(words, i) /\ ~IsProcessesLine(words, i)
HeadersBefore(words, i) == {h \in 1..(i - 1) : IsHeaderLine(words, h)}
ProcessesBefore(words, i) == {j \in 1..(i - 1) : IsProcessesLine(words, j)}
Latest(S) == CHOOSE x \in S : \A y \in S : y <= x
ConfiguredBins == Range(AllBins(blocks_))

\* the file has been read to its end
ReadDone == wg_last.op = "ReadSystematicsFile" /\ ~wg_last.threw

\* the bin lines under the k-th header that name bin
LinesFor(words, k, bin) ==
  {i \in 1..Len(words) :
     /\ IsBinLine(words, i)
     /\ Cardinality(HeadersBefore(words, i)) = k
     /\ words[i][1] = bin.name_}

\* C17: a bin line under a SYSTEMATIC header, with no PROCESSES line before
\* it in the file, gives the systematic of that header an entry with the
\* strength of the line for that bin and every background and the signal.
C17_DefaultAllProcesses ==
  ReadDone =>
    LET words == FileWords
    IN \A i \in 1..Len(words) :
         (/\ IsBinLine(words, i)
          /\ HeadersBefore(words, i) # {}
          /\ ProcessesBefore(words, i) = {}) =>
           \A bin \in ConfiguredBins, prc \in Range(all_prcs) :
              bin.name_ = words[i][1] =>
                LET k == Cardinality(HeadersBefore(words, i))
                IN /\ k <= Len(free_systematics_)
                   /\ HasEntry(free_systematics_[k], bin, prc)
                   /\ free_systematics_[k].strengths_[EntryKey(bin, prc)]
                        \in {Atof(words[j][2]) : j \in LinesFor(words, k, bin)}

\* the names listed on the PROCESSES line j
ListedNames(words, j) ==
  UNION {Range(Tokenize(words[j][w], {",", " "})) : w \in 2..Len(words[j])}

\* the processes selected when line i is read, a PROCESSES line being
\* before it
SelectedAt(words, i) ==
  LET names == ListedNames(words, Latest(ProcessesBefore(words, i)))
  IN {prc \in Range(all_prcs) : prc.name_ \in names}

\* the lines under the k-th header that set the entry of (bin, prc)
LinesSetting(words, k, bin, prc) ==
  {i \in LinesFor(words, k, bin) : prc \in SelectedAt(words, i)}

\* every bin line of the file has a PROCESSES line before it
SelectionExplicit ==
  LET words == FileWords
  IN \A i \in 1..Len(words) :
       IsBinLine(words, i) => ProcessesBefore(words, i) # {}

\* the k-th record is the systematic of the k-th header: its entries are
\* the pairs set by the bin lines under that header, each with the strength
\* of the last line that sets it
RecordOfHeader(words, k) ==
  LET h == CHOOSE i \in 1..Len(words) :
             IsHeaderLine(words, i) /\ Cardinality(HeadersBefore(words, i)) = k - 1
      record == free_systematics_[k]
  IN /\ record.name_ = words[h][2]
     /\ \A bin \in ConfiguredBins, prc \in Range(all_prcs) :
          LET setting == LinesSetting(words, k, bin, prc)
          IN IF setting = {}
             THEN ~HasEntry(record, bin, prc)
             ELSE /\ HasEntry(record, bin, prc)
                  /\ record.strengths_[EntryKey(bin, prc)]
                       = Atof(words[Latest(setting)][2])
     /\ DOMAIN record.strengths_ \subseteq
          {EntryKey(bin, prc) : bin \in ConfiguredBins, prc \in Range(all_prcs)}

\* the number of SYSTEMATIC headers of the file
NumHeaders(words) == Cardinality(HeadersBefore(words, Len(words) + 1))

\* C18 (as stated): the bin lines under a SYSTEMATIC header set the
\* strength of that systematic for exactly the pairs (bin, p) with bin a
\* configured bin of that name and p a currently selected process, and
\* there is exactly one free-systematic record with the name of the
\* systematic.
C18_OneRecordPerName ==
  (ReadDone /\ SelectionExplicit) =>
    LET words == FileWords
    IN /\ Len(free_systematics_) = NumHeaders(words)
       /\ \A k \in 1..Len(free_systematics_) :
            /\ RecordOfHeader(words, k)
            /\ (\E bin \in ConfiguredBins : LinesFor(words, k, bin) # {}) =>
                 \A m \in 1..Len(free_systematics_) :
                    free_systematics_[m].name_ = free_systematics_[k].name_
                      => m = k

\* C18 (amended): each SYSTEMATIC header yields exactly one record, the
\* k-th header the k-th record, whose entries are exactly the pairs
\* (bin, p) set by the bin lines under that header; a name that heads
\* several sections has one record for each of them.
C18_OneRecordPerHeader ==
  (ReadDone /\ SelectionExplicit) =>
    LET words == FileWords
    IN /\ Len(free_systematics_) = NumHeaders(words)
       /\ \A k \in 1..Len(free_systematics_) : RecordOfHeader(words, k)

\* a file read to its end whose one record has entries for tt and other in
\* r1 and for nothing else
C18_Witness ==
  /\ ReadDone
  /\ SelectionExplicit
  /\ Len(free_systematics_) = 1
  /\ \E bin \in ConfiguredBins :
        /\ bin.name_ = name_r1
        /\ DOMAIN free_systematics_[1].strengths_
             = {EntryKey(bin, backgrounds_[1]), EntryKey(bin, backgrounds_[2])}
        /\ free_systematics_[1].strengths_[EntryKey(bin, backgrounds_[1])] = <<1, 2>>

\* how often factor is among the factors of the product that w declares
\* as name
FactorCount(w, name, factor) ==
  Cardinality({<<i, a>> \in (1..Len(w.calls)) \X (1..4 * Len(backgrounds_) + 8) :
                 /\ w.calls[i].name = name
                 /\ a <= Len(w.calls[i].args)
                 /\ w.calls[i].args[a] = factor})

\* how often factor multiplies the predicted background of prc in bin: as a
\* factor of the rate of prc, and as a factor of the product over the sum
\* of the rates of the bin
ScalingCount(w, factor, block, bin, prc) ==
  FactorCount(w, <<"rate">> \o BlkBinPrc(block, bin, prc), factor)
  + FactorCount(w, <<"nbkg">> \o BlkBin(block, bin), factor)

\* C19: in a rebuild with systematics enabled, the multiplier of a free
\* systematic with an entry for (bin, process) multiplies the predicted
\* background of that process in that bin exactly once, and multiplies the
\* prediction of no other process of that bin and of no other bin.
C19_FreeSystematicOnce ==
  [][(RebuildStep /\ do_systematics_') =>
       \A syst \in Range(free_systematics_'), block \in Range(blocks_') :
          \A bin \in Range(BinsOf(block)), prc \in Range(backgrounds_) :
             HasEntry(syst, bin, prc) =>
               \A bin2 \in Range(BinsOf(block)), prc2 \in Range(backgrounds_) :
                  ScalingCount(w_', syst.name_ \o BinPrc(bin, prc), block, bin2, prc2)
                    = IF bin2 = bin /\ prc2 = prc THEN 1 ELSE 0]_vars

\* some line of the file that is neither empty nor a comment has fewer than
\* two words
HasShortLine(file) ==
  \E i \in 1..Len(file.lines) :
     LET line == CleanLine(file.lines[i])
     IN line # <<>> /\ Len(Tokenize(line, {" "})) < 2

\* the rebuild of this step did not complete and no file was written
Aborted == wg_last'.threw /\ ~wg_last'.wrote /\ ~w_is_valid_'

\* C20 (as stated): a rebuild with a systematics file that has a line of
\* fewer than two words aborts: UpdateWorkspace does not complete, the
\* validity flag stays false and WriteToFile writes no file.
C20_ShortLineAborts ==
  [][(StepOf("WriteToFile") /\ wg_last'.rebuilt /\ HasShortLine(systematics_file_))
       => Aborted]_vars

\* C20 (amended): a rebuild aborts exactly when systematics are enabled
\* and the systematics file has a line of fewer than two words; with
\* systematics disabled the file is not read, the rebuild completes, the
\* flag becomes true and the file is written.
C20_ShortLineAbortsWhenRead ==
  [][(StepOf("WriteToFile") /\ wg_last'.rebuilt) =>
       IF do_systematics_ /\ HasShortLine(systematics_file_)
       THEN Aborted
       ELSE ~wg_last'.threw /\ wg_last'.wrote /\ w_is_valid_']_vars

\* a WriteToFile whose rebuild was aborted by the short line of the file
C20_Witness ==
  /\ wg_last.op = "WriteToFile"
  /\ wg_last.rebuilt
  /\ wg_last.threw
  /\ ~wg_last.wrote
  /\ ~w_is_valid_
  /\ do_systematics_
  /\ HasShortLine(systematics_file_)

\* the first rebuild of the generator has run to its end
Rebuilt == wg_last.op = "WriteToFile" /\ wg_last.rebuilt /\ ~wg_last.threw

---------------------------------------------------------------------------
(* The ABCD parameterisation of a block *)

\* the declarations of the workspace with the given name
Declarations(w, name) == {d \in Range(w.calls) : d.name = name}
\* the declaration has a factor that starts with the given word
HasFactor(d, word) == \E a \in Range(d.args) : Head(a) = word

\* C21: after a rebuild, the raw rate of the bin in row i and column j of a
\* block, for every background, is declared once, with the column ratio of
\* column j among its factors exactly when j is not MaxCol and the row
\* ratio of row i exactly when i is not MaxRow; the rate of the reference
\* cell has neither.
C21_RatioFactors ==
  Rebuilt =>
    \A block \in Range(blocks_) :
      LET max_row == MaxRow(block)
          max_col == MaxCol(block)
      IN \A cell \in Range(Cells(block)), bkg \in Range(backgrounds_) :
           LET rates == Declarations(w_, <<"rate">> \o BlkBinPrc(block, cell.bin, bkg))
           IN /\ Cardinality(rates) = 1
              /\ \A d \in rates :
                   /\ HasFactor(d, "rx") <=> cell.col # max_col
                   /\ HasFactor(d, "ry") <=> cell.row # max_row
                   /\ \A a \in Range(d.args) :
                        /\ Head(a) = "rx" => a = ColRatio(block, cell.col, max_col)
                        /\ Head(a) = "ry" => a = RowRatio(block, cell.row, max_row)

\* a rebuilt block whose reference cell is the last one: the rate of the
\* first cell has both ratios, the rate of the last cell has neither
C21_Witness ==
  /\ Rebuilt
  /\ MaxRow(blocks_[1]) = 2
  /\ MaxCol(blocks_[1]) = 2
  /\ \E d \in Declarations(w_, <<"rate">> \o BlkBinPrc(blocks_[1], blocks_[1].bins_[1][1],
                                                       backgrounds_[1])) :
       HasFactor(d, "rx") /\ HasFactor(d, "ry")
  /\ \E d \in Declarations(w_, <<"rate">> \o BlkBinPrc(blocks_[1], blocks_[1].bins_[2][2],
                                                       backgrounds_[1])) :
       ~HasFactor(d, "rx") /\ ~HasFactor(d, "ry")

\* the variables of the block whose name starts with the given word
BlockVars(w, block, word) ==
  {d \in Range(w.calls) :
     /\ d.kind = "var"
     /\ Head(d.name) = word
     /\ Len(d.name) = 3 + Len(Blk(block))
     /\ SubSeq(d.name, 4, Len(d.name)) = Blk(block)}

\* C22: after a rebuild every block has exactly one norm variable, starting
\* at max(1, total) in [0, max(5*total, 20)]; for every row but MaxRow
\* exactly one row ratio starting at rowsum/rowsum(MaxRow), for every
\* column but MaxCol exactly one column ratio starting at
\* colsum/colsum(MaxCol); all of them are nuisances, and no ratio is declared
\* for the reference row or column.
C22_ABCDParameters ==
  Rebuilt =>
    \A block \in Range(blocks_) :
      LET max_row == MaxRow(block)
          max_col == MaxCol(block)
          total == Total(Gen, block)
          norm == <<"norm">> \o Blk(block)
      IN /\ DeclCount(w_, norm) = 1
         /\ Declarations(w_, norm) =
              {VarDecl(norm, Number(IF RGreater(total, Rat(1)) THEN total ELSE Rat(1)),
                       <<Rat(0), IF RGreater(RMul(Rat(5), total), Rat(20))
                                 THEN RMul(Rat(5), total) ELSE Rat(20)>>)}
         /\ norm \in nuisances_
         /\ \A r \in 1..NumRows(block) :
              LET ry == RowRatio(block, r, max_row)
              IN IF r = max_row
                 THEN \A d \in BlockVars(w_, block, "ry") : d.name[2] # Dec(r)
                 ELSE /\ DeclCount(w_, ry) = 1
                      /\ Declarations(w_, ry) =
                           {VarDecl(ry, FDiv(RowSumAt(Gen, block, r),
                                             RowSumAt(Gen, block, max_row)),
                                    <<Rat(0), Rat(10)>>)}
                      /\ ry \in nuisances_
         /\ Cardinality(BlockVars(w_, block, "ry")) = NumRows(block) - 1
         /\ \A c \in 1..NumCols(block) :
              LET rx == ColRatio(block, c, max_col)
              IN IF c = max_col
                 THEN \A d \in BlockVars(w_, block, "rx") : d.name[2] # Dec(c)
                 ELSE /\ DeclCount(w_, rx) = 1
                      /\ Declarations(w_, rx) =
                           {VarDecl(rx, FDiv(ColSumAt(Gen, block, c),
                                             ColSumAt(Gen, block, max_col)),
                                    <<Rat(0), Rat(10)>>)}
                      /\ rx \in nuisances_
         /\ Cardinality(BlockVars(w_, block, "rx")) = NumCols(block) - 1

\* a rebuild with a block of total yield above 1, whose norm starts at the
\* total and whose row ratio starts strictly between 0 and 1, and a block
\* of total yield below 1, whose norm starts at 1
C22_Witness ==
  /\ Rebuilt
  /\ RGreater(Total(Gen, blocks_[1]), Rat(1))
  /\ \E d \in Declarations(w_, <<"norm">> \o Blk(blocks_[1])) :
       d.value = Number(Total(Gen, blocks_[1]))
  /\ MaxRow(blocks_[1]) = 2
  /\ \E d \in BlockVars(w_, blocks_[1], "ry") :
       /\ d.value.kind = "number"
       /\ RPos(d.value.of)
       /\ RGreater(Rat(1), d.value.of)
  /\ RGreater(Rat(1), Total(Gen, blocks_[2]))
  /\ \E d \in Declarations(w_, <<"norm">> \o Blk(blocks_[2])) :
       d.value = Number(Rat(1))

---------------------------------------------------------------------------
(* The observed counts *)

\* the sum of the yields of the backgrounds in the bin at the luminosity of
\* the generator
BackgroundCount(bin) ==
  SumSeq([p \in 1..Len(backgrounds_) |->
            Yield(GenGetYield(luminosity_, backgrounds_[p],
                              bin_source[bin.name_][backgrounds_[p].name_]))])
SignalCount(bin) ==
  Yield(GenGetYield(luminosity_, signal_, bin_source[bin.name_][signal_.name_]))
DataCount(bin) ==
  Yield(GenGetYield(luminosity_, data_, bin_source[bin.name_][data_.name_]))
\* the count of the claim: data, or backgrounds plus injected signal
StatedCount(bin) ==
  IF bin.blind_
  THEN RAdd(BackgroundCount(bin), RMul(Rat(sig_strength_), SignalCount(bin)))
  ELSE DataCount(bin)
NobsOf(block, bin) == Declarations(w_, <<"nobs">> \o BlkBin(block, bin))

\* C23 (as stated): after a rebuild the observed count declared for a bin
\* is the data yield when the bin is not blind and the sum of the background
\* yields plus sig_strength times the signal yield when it is blind.
C23_ObservedCount ==
  Rebuilt =>
    \A block \in Range(blocks_) : \A bin \in Range(BinsOf(block)) :
      \A d \in NobsOf(block, bin) : d.value = Number(StatedCount(bin))

\* C23 (amended): after a rebuild every bin has exactly one observed count;
\* with toy index 0 it is the data yield when the bin is not blind and the sum
\* of the background yields plus sig_strength times the signal yield when it
\* is blind; with a toy index other than 0 it is a Poisson draw with that
\* mean, for blind and unblinded bins alike. With toy index 0 and
\* sig_strength 0 the count of a blind bin is the summed background yield.
C23_ObservedCountOrDraw ==
  Rebuilt =>
    \A block \in Range(blocks_) : \A bin \in Range(BinsOf(block)) :
      /\ DeclCount(w_, <<"nobs">> \o BlkBin(block, bin)) = 1
      /\ \A d \in NobsOf(block, bin) :
           /\ d.value = IF toy_num_ = 0 THEN Number(StatedCount(bin))
                        ELSE GetPoisson(StatedCount(bin))
           /\ (toy_num_ = 0 /\ sig_strength_ = 0 /\ bin.blind_)
                => d.value = Number(BackgroundCount(bin))

\* a rebuild without toy index that injected signal into a blind bin: the
\* declared count exceeds the summed background yield
C23_Witness ==
  /\ Rebuilt
  /\ toy_num_ = 0
  /\ sig_strength_ # 0
  /\ blocks_[1].bins_[1][1].blind_
  /\ \E d \in NobsOf(blocks_[1], blocks_[1].bins_[1][1]) :
       /\ d.value.kind = "number"
       /\ RGreater(d.value.of, BackgroundCount(blocks_[1].bins_[1][1]))
       /\ RPos(BackgroundCount(blocks_[1].bins_[1][1]))

---------------------------------------------------------------------------
(* The ladder of selections *)

\* a selection: the luminosity factor of its weight (0 for none) and its
\* conjuncts
Selection(weight, conj) == [weight |-> weight, conj |-> conj, met |-> "met"]
\* the number of levels a call has queried
LevelsQueried(call) == Len(call.queried) \div PerLevel
\* the weight that level k (from 0) of a call returned
LevelWeight(call, k) == LevelYield(process, LevelCut(call, k)).weight_
\* a GetYield that ran the ladder for a process with CountZeros()
FellBack(call) == RanLadder(call) /\ process.count_zeros_

\* C24: a ComputeYield that runs the ladder for a process with CountZeros()
\* queries levels 0, 1, ... in this order (each with its met_tru twin for a
\* signal name), every level before the last queried one returned no
\* positive weight, it stops before level 4 only at a positive weight, and
\* when all five levels return no positive weight the stored yield is 0.
C24_LadderOrder ==
  FellBack(last) =>
    LET n == LevelsQueried(last)
        cuts == LadderCuts(last.lumi, last.key)
    IN /\ n \in 1..NumCuts
       /\ Len(last.queried) = n * PerLevel
       /\ \A k \in 0..(n - 1) :
            SubSeq(last.queried, k * PerLevel + 1, (k + 1) * PerLevel)
              = LevelQueries(process, cuts[k + 1])
       /\ \A k \in 0..(n - 2) : RLeqZero(LevelWeight(last, k))
       /\ n < NumCuts => RPos(LevelWeight(last, n - 1))
       /\ (n = NumCuts /\ RLeqZero(LevelWeight(last, n - 1)))
            => (IsStored(last) /\ Yield(Stored(last)) = Rat(0)
                /\ Yield(last.ret) = Rat(0))

\* a ladder that stopped at level 2, and none of its levels 0 and 1 had
\* returned a positive weight
C24_Witness ==
  /\ FellBack(last)
  /\ LevelsQueried(last) = 3
  /\ RPos(LevelWeight(last, 2))
  /\ RLeqZero(LevelWeight(last, 0))
  /\ RLeqZero(LevelWeight(last, 1))

\* a ladder that was exhausted: all five levels queried, none positive
C24_WitnessExhausted ==
  /\ FellBack(last)
  /\ LevelsQueried(last) = NumCuts
  /\ \A k \in 0..(NumCuts - 1) : RLeqZero(LevelWeight(last, k))
  /\ IsStored(last)

\* the weight factor of a selection of the ladder
WeightOf(call) == IF process.is_data_ THEN 0 ELSE call.lumi
\* the conjuncts of the key of a call
CutAtom(call) == GetCut(call.key).conj[1]
BinAtom(call) == Atom(GetBin(call.key).cut_, TRUE)
ProcessAtom == Atom("pcut", FALSE)

\* C25 (as stated): the selections queried are (0) luminosity weight with
\* cut, bin cut and process cut, (1) without the bin cut, (2) without the
\* cut, (3) without the luminosity weight, (4) the trivial selection.
C25_LadderSelections ==
  FellBack(last) =>
    \A k \in 0..(LevelsQueried(last) - 1) :
      LevelCut(last, k) =
        << Selection(WeightOf(last), <<CutAtom(last), BinAtom(last), ProcessAtom>>),
           Selection(WeightOf(last), <<CutAtom(last), ProcessAtom>>),
           Selection(WeightOf(last), <<ProcessAtom>>),
           Selection(0, <<ProcessAtom>>),
           Selection(0, <<>>) >>[k + 1]

\* C25 (amended): the selections queried are (0) luminosity weight with
\* cut, bin cut and process cut, (1) without the bin cut, (2) without the
\* cut, (3) the luminosity weight alone, without the process cut, (4) the
\* trivial selection without the luminosity weight.
C25_LadderSelectionsWeightLast ==
  FellBack(last) =>
    \A k \in 0..(LevelsQueried(last) - 1) :
      LevelCut(last, k) =
        << Selection(WeightOf(last), <<CutAtom(last), BinAtom(last), ProcessAtom>>),
           Selection(WeightOf(last), <<CutAtom(last), ProcessAtom>>),
           Selection(WeightOf(last), <<ProcessAtom>>),
           Selection(WeightOf(last), <<>>),
           Selection(0, <<>>) >>[k + 1]

\* a ladder of a process that is not data went down to the trivial selection
C25_Witness ==
  /\ FellBack(last)
  /\ ~process.is_data_
  /\ LevelsQueried(last) = NumCuts
  /\ LevelCut(last, 3) = Selection(last.lumi, <<>>)
  /\ LevelCut(last, 4) = Selection(0, <<>>)

---------------------------------------------------------------------------
(* The cache over time *)

---------------------------------------------------------------------------
(* The settings a valid workspace was built under *)

\* the settings that the workspace depends on
Settings ==
  <<luminosity_, do_systematics_, do_dilepton_, do_mc_kappa_correction_, toy_num_>>

\* C27: a step that ends with the validity flag true leaves luminosity,
\* systematics, dilepton and kappa policy and toy index as they are, and if
\* the flag was false before it, the step is a rebuild that ran to its end.
\* So from the last completed rebuild on, as long as the flag is true, the
\* settings are those the workspace was built under, and a WriteToFile that
\* does not rebuild leaves the workspace as that rebuild made it.
C27_ValidMeansAsBuilt ==
  [][/\ w_is_valid_' =>
          /\ Settings' = Settings
          /\ ~w_is_valid_ => RebuildStep
     /\ (w_is_valid_ /\ StepOf("WriteToFile")) => (w_' = w_ /\ ~wg_last'.rebuilt)]_vars

\* the third call on a generator with the settings of its construction is a
\* WriteToFile that wrote the valid workspace without rebuilding it
C27_Witness ==
  /\ wg_calls = 3
  /\ wg_last.op = "WriteToFile"
  /\ ~wg_last.rebuilt
  /\ wg_last.wrote
  /\ w_is_valid_
  /\ luminosity_ = initial_luminosity
  /\ toy_num_ = 0

---------------------------------------------------------------------------
(* The order of the steps of a rebuild *)

\* the steps of the claim for one block, under the kappa policy of the state
StatedBlockPhases ==
  <<"AddData", "AddMCYields", "AddMCPdfs", "AddMCProcessSums",
    "AddBackgroundFractions", "AddABCDParameters", "AddRawBackgroundPredictions">>
  \o (IF do_mc_kappa_correction_ THEN <<"AddKappas">> ELSE <<>>)
  \o <<"AddFullBackgroundPredictions", "AddSignalPredictions", "AddPdfs">>

\* the steps of the claim for the generator of the state
StatedPhases ==
  (IF do_dilepton_ THEN <<<<"AddDileptonSystematic", <<>>>>>> ELSE <<>>)
  \o (IF do_systematics_ THEN <<<<"ReadSystematicsFile", <<>>>>>> ELSE <<>>)
  \o <<<<"AddPOI", <<>>>>, <<"AddSystematicsGenerators", <<>>>>>>
  \o Concat([b \in 1..Len(blocks_) |->
               [i \in 1..Len(StatedBlockPhases) |->
                  <<StatedBlockPhases[i], blocks_[b].name_>>]])
  \o <<<<"AddDummyNuisance", <<>>>>, <<"AddFullPdf", <<>>>>,
       <<"AddParameterSets", <<>>>>, <<"AddModels", <<>>>>>>

\* C28: a rebuild that runs to its end has entered exactly the stated steps
\* in the stated order, each block's steps together and the blocks in their
\* order, and then the validity flag is true; a rebuild that is aborted has
\* entered a proper initial part of them and leaves the flag false; before
\* the first rebuild the flag is false.
C28_PhaseOrder ==
  /\ Rebuilt => (w_.phases = StatedPhases /\ w_is_valid_)
  /\ (wg_last.op = "WriteToFile" /\ wg_last.threw) =>
       /\ ~w_is_valid_
       /\ Len(w_.phases) < Len(StatedPhases)
       /\ w_.phases = SubSeq(StatedPhases, 1, Len(w_.phases))
  /\ wg_calls = 0 => (~w_is_valid_ /\ w_.phases = <<>>)

\* a rebuild of two blocks without the kappa step: the last step of the
\* first block is directly followed by the first step of the second
C28_Witness ==
  /\ Rebuilt
  /\ do_dilepton_ /\ do_systematics_ /\ ~do_mc_kappa_correction_
  /\ Len(blocks_) = 2
  /\ \E i \in 1..(Len(w_.phases) - 1) :
       /\ w_.phases[i] = <<"AddPdfs", blocks_[1].name_>>
       /\ w_.phases[i + 1] = <<"AddData", blocks_[2].name_>>
  /\ \A i \in 1..Len(w_.phases) : w_.phases[i][1] # "AddKappas"

\* a rebuild that the systematics file aborted
C28_WitnessAborted ==
  /\ wg_last.op = "WriteToFile" /\ wg_last.threw
  /\ w_.phases # <<>>

---------------------------------------------------------------------------
(* Declaration before use *)

\* the names the workspace knows when its i-th factory call is made: those
\* declared by the calls before it and the variables created in line up to it
KnownAt(w, i) ==
  {w.calls[j].name : j \in 1..(i - 1)}
  \cup UNION {Range(w.calls[j].inline) : j \in 1..i}
\* the names the i-th call refers to that the workspace does not know then
UnknownAt(w, i) == {a \in Range(w.calls[i].args) : a \notin KnownAt(w, i)}

\* C29: in a completed rebuild every factory call refers only to names
\* that an earlier call of the same rebuild has declared.
C29_DeclaredBeforeUse ==
  Rebuilt => \A i \in 1..Len(w_.calls) : UnknownAt(w_, i) = {}

\* the multipliers <syst>_BIN_<bin>_PRC_<prc> of the systematics attached to
\* the processes
ProcessMultipliers ==
  {all_prcs[p].systematics_[i].name_ \o BinPrc(bin, all_prcs[p]) :
     <<p, i, bin>> \in {<<p, i, bin>> \in (1..Len(all_prcs)) \X (1..1) \X Range(AllBins(blocks_)) :
                         i <= Len(all_prcs[p].systematics_)}}

\* what holds in the model: the only names referred to without a declaration
\* are the per-bin multipliers of the systematics attached to processes, in
\* the predictions nbkg and nsig, with systematics enabled; the prediction
\* nbkg of a bin refers to one unless a free systematic of the same name has
\* an entry for the bin
C29_OnlyProcessMultipliersUnknown ==
  Rebuilt =>
    \A i \in 1..Len(w_.calls) :
      /\ UnknownAt(w_, i) \subseteq ProcessMultipliers
      /\ UnknownAt(w_, i) # {} =>
           (do_systematics_ /\ Head(w_.calls[i].name) \in {"nbkg", "nsig"})
      /\ \A block \in Range(blocks_) : \A bin \in Range(BinsOf(block)) :
           ( /\ do_systematics_
             /\ w_.calls[i].name = <<"nbkg">> \o BlkBin(block, bin)
             /\ \A f \in Range(free_systematics_), prc \in Range(all_prcs) :
                  ~HasEntry(f, bin, prc) )
           => UnknownAt(w_, i) # {}

---------------------------------------------------------------------------
(* C30: which yield the dilepton step uses, and which bins it skips *)

\* what is said of a bin that qualifies: its cut has "mt>", and its cut or
\* the baseline has a single-lepton requirement
Qualifies(bin) ==
  /\ Contains(bin.cut_, mt_gt)
  /\ \/ \E pat \in SingleLeptonPatterns : Contains(bin.cut_, pat)
     \/ \E pat \in SingleLeptonPatterns : Contains(baseline_, pat)

\* the bin of that name as the constructor was given it
AsConstructed(bin) ==
  CHOOSE b \in Range(AllBins(ConfiguredBlocks(bin.blind_))) :
    b.name_ = bin.name_

\* C30: after the dilepton step a qualifying bin has gained exactly the
\* systematic dilep_<bin>, whose strength is that of the data yield when the
\* bin is not blind and that of the sum of the background yields, the signal
\* left out, when it is blind; a bin that does not qualify has gained no
\* systematic at all.
C30_DilepYieldSource ==
  wg_last.op = "AddDileptonSystematic" =>
    \A bin \in Range(AllBins(blocks_)) :
       IF Qualifies(bin)
       THEN /\ bin.systematics_ =
                 Append(AsConstructed(bin).systematics_,
                        DilepSystematics(bin)[1])
            /\ LET y == ExpectedDilepYield(bin)
                    strength == DilepSystematics(bin)[1].strength_
               IN IF RGreater(y, Rat(1)) THEN IsInvSqrtOf(strength, y)
                  ELSE strength = Exact(Rat(1))
       ELSE bin.systematics_ = AsConstructed(bin).systematics_

\* a bin that is not blind took the data yield 4 although the backgrounds
\* sum to something else, next to a bin without "mt>" that gained nothing
C30_Witness ==
  /\ wg_last.op = "AddDileptonSystematic"
  /\ \E bin, other \in Range(AllBins(blocks_)) :
        /\ Qualifies(bin)
        /\ ~bin.blind_
        /\ Yield(dilep_source[bin.name_][data_.name_]) = Rat(4)
        /\ RAdd(Yield(dilep_source[bin.name_][name_tt]),
                Yield(dilep_source[bin.name_][name_other])) # Rat(4)
        /\ DilepSystematics(bin)[1].strength_ = InvSqrt(Rat(4))
        /\ ~Contains(other.cut_, mt_gt)
        /\ DilepSystematics(other) = <<>>

\* a blind bin with "mt>" went without the systematic because neither its
\* cut nor the baseline asks for a single lepton
C30_WitnessLooseBaseline ==
  /\ wg_last.op = "AddDileptonSystematic"
  /\ baseline_ = LooseBaseline
  /\ \E bin \in Range(AllBins(blocks_)) :
        /\ Contains(bin.cut_, mt_gt)
        /\ bin.blind_
        /\ ~Qualifies(bin)
        /\ DilepSystematics(bin) = <<>>

\* a blind bin whose strength is that of the backgrounds alone: with the
\* signal yield added the strength would be another
C30_WitnessBlind ==
  /\ wg_last.op = "AddDileptonSystematic"
  /\ \E bin \in Range(AllBins(blocks_)) :
        /\ Qualifies(bin)
        /\ bin.blind_
        /\ luminosity_ = store_lumi_
        /\ ExpectedDilepYield(bin) = Rat(2)
        /\ DilepSystematics(bin)[1].strength_ = InvSqrt(Rat(2))
        /\ DilepSystematics(bin)[1].strength_ #
             InvSqrt(RAdd(Rat(2), Yield(SignalYield)))

---------------------------------------------------------------------------
(* C31: a rebuild with the dilepton policy disabled *)

\* the names of the systematics the bins of the generator carry
BinSystematicNames ==
  UNION {{bin.systematics_[i].name_ : i \in 1..Len(bin.systematics_)} :
           bin \in Range(AllBins(blocks_))}

\* C31: after a rebuild that ran with the dilepton policy disabled no bin
\* carries a systematic dilep_<bin>, no declaration of the workspace has
\* dilep_ in its name, and no dilep_ name is among the nuisances or the
\* systematics registered, whatever rebuilds went before.
C31_NoDilepWhenDisabled ==
  (Rebuilt /\ ~do_dilepton_) =>
    /\ \A name \in BinSystematicNames : ~Contains(name, dilep_)
    /\ \A i \in 1..Len(w_.calls) : ~Contains(w_.calls[i].name, dilep_)
    /\ \A name \in nuisances_ \cup systematics_ : ~Contains(name, dilep_)

---------------------------------------------------------------------------
(* C32: the two full densities and the two model configurations *)

\* the factor of the alternate density that stands for a factor of the null
\* density: the density of a block under the other hypothesis, else itself
AltOf(factor) ==
  IF Head(factor) = "pdf_null" THEN <<"pdf_alt">> \o Tail(factor) ELSE factor

\* the factors said to be common to both full densities
CommonFactors ==
  {<<"pdf_dummy_nuisance">>}
  \cup (IF do_systematics_ \/ do_dilepton_
        THEN {<<"constraint_">> \o name : name \in systematics_} ELSE {})
  \cup {<<"pdf_mc_">> \o blocks_[b].name_ : b \in 1..Len(blocks_)}
BlockDensities(lead) ==
  {<<lead>> \o Blk(blocks_[b]) : b \in 1..Len(blocks_)}

\* C32: in a rebuilt workspace model_b and model_s are each declared once,
\* model_b is the product of the dummy nuisance density, the constraint of
\* every registered systematic (exactly when the systematics or the dilepton
\* policy is enabled), the simulation-count density of every block and the
\* null density of every block, each once; model_s has factor by factor the
\* same with the alternate density of the block in the place of the null
\* one; ModelConfig holds model_s and ModelConfig_bonly holds model_b, and
\* both are given the same four sets, which the workspace defines.
C32_FullDensities ==
  Rebuilt =>
    /\ \A name \in {<<"model_b">>, <<"model_s">>, <<"ModelConfig">>,
                     <<"ModelConfig_bonly">>} : DeclCount(w_, name) = 1
    /\ \A b \in Declarations(w_, <<"model_b">>) :
       \A s \in Declarations(w_, <<"model_s">>) :
          /\ Range(b.args) = CommonFactors \cup BlockDensities("pdf_null")
          /\ Len(b.args) = Cardinality(Range(b.args))
          /\ Len(s.args) = Len(b.args)
          /\ \A i \in 1..Len(b.args) : s.args[i] = AltOf(b.args[i])
    /\ \A ms \in Declarations(w_, <<"ModelConfig">>) :
       \A mb \in Declarations(w_, <<"ModelConfig_bonly">>) :
          /\ ms.args = <<<<"model_s">>>> /\ mb.args = <<<<"model_b">>>>
          /\ ms.poi = "POI" /\ ms.nuisances = "nuisances"
          /\ ms.observables = "observables"
          /\ ms.globals = "globalObservables"
          /\ <<mb.poi, mb.nuisances, mb.observables, mb.globals>>
               = <<ms.poi, ms.nuisances, ms.observables, ms.globals>>
          /\ {ms.poi, ms.nuisances, ms.observables, ms.globals}
               = DOMAIN w_.sets

\* a rebuild of two blocks with a registered systematic whose constraint is a
\* factor of both densities
C32_Witness ==
  /\ Rebuilt
  /\ Len(blocks_) = 2
  /\ ~do_dilepton_ /\ do_systematics_
  /\ systematics_ # {}
  /\ \E b \in Declarations(w_, <<"model_b">>) :
     \E s \in Declarations(w_, <<"model_s">>) :
     \E name \in systematics_ :
        /\ <<"constraint_">> \o name \in Range(b.args) \cap Range(s.args)
        /\ b.args # s.args

\* both policies disabled: systematics are registered and neither density has
\* a constraint among its factors
C32_WitnessNoConstraints ==
  /\ Rebuilt
  /\ ~do_dilepton_ /\ ~do_systematics_
  /\ systematics_ # {}
  /\ \A s \in Declarations(w_, <<"model_s">>) :
        \A a \in Range(s.args) : Head(a) # "constraint_"

---------------------------------------------------------------------------
(* C35: initial values and ranges *)

\* the declarations of variables that have a range
Ranged(w) ==
  {d \in Range(w.calls) : d.kind = "var" /\ "range" \in DOMAIN d /\ d.range # <<>>}

\* a <= b
RLeq(a, b) == ~RGreater(a, b)

\* the value is a number of the range
InRange(d) ==
  /\ d.value.kind = "number"
  /\ RLeq(d.range[1], d.value.of)
  /\ RLeq(d.value.of, d.range[2])

\* C35: in a rebuilt workspace every variable declared with a range has a
\* number inside the range as its initial value: r, the norm of each block,
\* each row and column ratio and each nmc, whatever the yields are.
C35_InitialValuesInRange ==
  Rebuilt => \A d \in Ranged(w_) : InRange(d)

\* the same for the blocks whose summed background yield is not zero, and
\* for everything that is not a row or column ratio
C35_InRangeUnlessEmptyBlock ==
  Rebuilt =>
    \A d \in Ranged(w_) :
       \/ InRange(d)
       \/ /\ Head(d.name) \in {"rx", "ry"}
          /\ d.value = NotANumber
          /\ \E block \in Range(blocks_) :
                /\ d \in BlockVars(w_, block, Head(d.name))
                /\ Total(Gen, block) = Rat(0)

---------------------------------------------------------------------------
(* C33: the kappa correction *)

\* a value that is a number, and the value of a quotient by zero
Defined(q) == [def |-> TRUE, q |-> q]
Undefined == [def |-> FALSE, q |-> Rat(0)]
VAdd(a, b) == IF a.def /\ b.def THEN Defined(RAdd(a.q, b.q)) ELSE Undefined
VMul(a, b) == IF a.def /\ b.def THEN Defined(RMul(a.q, b.q)) ELSE Undefined
VDiv(a, b) ==
  IF a.def /\ b.def /\ b.q # Rat(0) THEN Defined(RDiv(a.q, b.q)) ELSE Undefined

RECURSIVE VSum(_)
VSum(vs) == IF vs = <<>> THEN Defined(Rat(0)) ELSE VAdd(Head(vs), VSum(Tail(vs)))
RECURSIVE VProduct(_)
VProduct(vs) ==
  IF vs = <<>> THEN Defined(Rat(1)) ELSE VMul(Head(vs), VProduct(Tail(vs)))

\* the value of a formula at the values of its arguments
RECURSIVE FormulaValue(_, _)
FormulaValue(f, vs) ==
  IF f.op = "arg" THEN vs[f.i]
  ELSE IF f.op = "*"
  THEN VMul(FormulaValue(f.l, vs), FormulaValue(f.r, vs))
  ELSE VDiv(FormulaValue(f.l, vs), FormulaValue(f.r, vs))

\* the value the workspace gives the name at the initial values of its
\* variables
RECURSIVE ValueOf(_, _)
ValueOf(w, name) ==
  LET d == CHOOSE d \in Declarations(w, name) : TRUE
      vs == [i \in 1..Len(d.args) |-> ValueOf(w, d.args[i])] \o <<>>
  IN IF d.kind = "var"
     THEN IF d.value.kind = "number" THEN Defined(d.value.of) ELSE Undefined
     ELSE IF d.kind = "sum" THEN VSum(vs)
     ELSE IF d.kind = "prod" THEN VProduct(vs)
     ELSE FormulaValue(d.formula, vs)

\* the names the kappa correction declares
IsKappaName(name) ==
  Head(name) \in {"kappamc", "predmc", "rowmc", "colmc", "totmc"}

\* summed MC background yield / (row sum * column sum / block total)
StatedKappa(block, cell) ==
  VDiv(Defined(Yield(SumYields(luminosity_, backgrounds_,
                               bin_source[cell.bin.name_]))),
       VDiv(VMul(Defined(RowSumAt(Gen, block, cell.row)),
                 Defined(ColSumAt(Gen, block, cell.col))),
            Defined(Total(Gen, block))))

\* C33: in a workspace rebuilt with the kappa policy enabled every bin has
\* one declaration kappamc_<bin>, whose value is the summed MC background
\* yield of the bin divided by (row sum times column sum divided by block
\* total), and it is a factor of nbkg_<bin>; in a workspace rebuilt with the
\* policy disabled nothing named kappamc, predmc, rowmc, colmc or totmc is
\* declared and no nbkg_<bin> has such a factor.
C33_KappaCorrection ==
  (Rebuilt /\ toy_num_ = 0) =>
    IF do_mc_kappa_correction_
    THEN \A block \in Range(blocks_) : \A cell \in Range(Cells(block)) :
           LET kappa == <<"kappamc">> \o BlkBin(block, cell.bin)
           IN /\ DeclCount(w_, kappa) = 1
              /\ ValueOf(w_, kappa) = StatedKappa(block, cell)
              /\ \A d \in Declarations(w_, <<"nbkg">> \o BlkBin(block, cell.bin)) :
                    Cardinality({i \in 1..Len(d.args) : d.args[i] = kappa}) = 1
    ELSE /\ \A d \in Range(w_.calls) : ~IsKappaName(d.name)
         /\ \A d \in Range(w_.calls) : \A a \in Range(d.args) : ~IsKappaName(a)

\* a bin of the 2x2 block whose kappa is a number other than 1
C33_Witness ==
  /\ Rebuilt /\ toy_num_ = 0
  /\ do_mc_kappa_correction_
  /\ \E cell \in Range(Cells(blocks_[1])) :
        LET v == ValueOf(w_, <<"kappamc">> \o BlkBin(blocks_[1], cell.bin))
        IN v.def /\ v.q # Rat(1) /\ v.q # Rat(0)

\* a rebuild with the policy disabled
C33_WitnessDisabled ==
  /\ Rebuilt
  /\ ~do_mc_kappa_correction_
  /\ \E d \in Range(w_.calls) : Head(d.name) = "nbkg"

---------------------------------------------------------------------------
(* C34: the bins dropped from the observables and from the densities *)

\* the observed count of the bin is registered as an observable
Observed(block, bin) == (<<"nobs">> \o BlkBin(block, bin)) \in observables_

\* the null and alternate Poisson densities of the bin are declared and are
\* factors of the density products of its block
HasDensities(block, bin) ==
  \A lead \in {<<"pdf_null">>, <<"pdf_alt">>} :
    /\ DeclCount(w_, lead \o BlkBin(block, bin)) = 1
    /\ \E d \in Declarations(w_, lead \o Blk(block)) :
          \E i \in 1..Len(d.args) : d.args[i] = lead \o BlkBin(block, bin)

\* C34: after a rebuild (use_r4 is false) the observed count of a bin is
\* registered as an observable exactly when the null and alternate Poisson
\* densities of the bin are declared and included in the density products
\* of its block, for every block and bin.
C34_DropDecisionsAgree ==
  Rebuilt =>
    \A block \in Range(blocks_) : \A bin \in Range(BinsOf(block)) :
      Observed(block, bin) <=> HasDensities(block, bin)

\* the same for the blocks whose name has no character 4
C34_AgreeUnlessBlockNamed4 ==
  Rebuilt =>
    \A block \in Range(blocks_) : \A bin \in Range(BinsOf(block)) :
      ~Contains(block.name_, <<"4">>) =>
        (Observed(block, bin) <=> HasDensities(block, bin))

---------------------------------------------------------------------------
(* C36: the dilepton systematics and the background predictions *)

\* the names of the background predictions
IsPrediction(name) == Head(name) \in {"nbkg", "nbkg_raw", "rate"}

\* the declarations that have the name among their arguments
UsersOf(w, name) == {d \in Range(w.calls) : \E a \in Range(d.args) : a = name}

\* the names of the bin systematics of the current blocks that start with
\* dilep_
DilepNuisances == {name \in BinSystematicNames : IsDilep(name)}

\* C36: after a rebuild no background prediction has a factor whose name
\* starts with dilep_; with systematics enabled nbkg_<bin> has among its
\* factors <syst>_<bin> of every systematic of the bin whose name does not
\* start with dilep_; and a dilep_ nuisance is an argument only of its
\* constraint and of the expression <syst>_<bin>, which is an argument of
\* nothing.
C36_DilepNotAFactor ==
  Rebuilt =>
    /\ \A d \in Range(w_.calls) :
          IsPrediction(d.name) => \A a \in Range(d.args) : ~IsDilep(a)
    /\ do_systematics_ =>
          \A block \in Range(blocks_) : \A bin \in Range(BinsOf(block)) :
            \A syst \in Range(bin.systematics_) :
              ~IsDilep(syst.name_) =>
                \A d \in Declarations(w_, <<"nbkg">> \o BlkBin(block, bin)) :
                  \E a \in Range(d.args) : a = syst.name_ \o BlkBin(block, bin)
    /\ \A name \in DilepNuisances :
          \A d \in UsersOf(w_, name) :
            \/ d.name = <<"constraint_">> \o name
            \/ /\ \E block \in Range(blocks_) : \E bin \in Range(BinsOf(block)) :
                     d.name = name \o BlkBin(block, bin)
               /\ UsersOf(w_, d.name) = {}

\* a rebuild with systematics and the dilepton policy enabled: a bin carries
\* a dilep_ systematic whose constraint is declared, and another bin has a
\* systematic of another name that is a factor of its prediction
C36_Witness ==
  /\ Rebuilt /\ do_systematics_ /\ do_dilepton_
  /\ \E name \in DilepNuisances : DeclCount(w_, <<"constraint_">> \o name) = 1
  /\ \E block \in Range(blocks_) : \E bin \in Range(BinsOf(block)) :
        \E syst \in Range(bin.systematics_) :
          /\ ~IsDilep(syst.name_)
          /\ UsersOf(w_, syst.name_ \o BlkBin(block, bin)) # {}

---------------------------------------------------------------------------
(* C37: the names declared in one rebuild *)

\* the number of declarations of the name in the workspace, those made
\* inside the argument list of another declaration included
TimesDeclared(w, name) ==
  Cardinality({i \in 1..Len(w.calls) : w.calls[i].name = name})
  + Cardinality({i \in 1..Len(w.calls) : name \in Range(w.calls[i].inline)})

\* bin names are unique within each block and block names are distinct
DistinctNames ==
  /\ \A i, j \in 1..Len(blocks_) : blocks_[i].name_ = blocks_[j].name_ => i = j
  /\ \A block \in Range(blocks_) :
        \A i, j \in 1..Len(BinsOf(block)) :
          BinsOf(block)[i].name_ = BinsOf(block)[j].name_ => i = j

\* no two bins of the generator, of one block or of two, have the same name
DistinctBinNames ==
  \A i, j \in 1..Len(AllBins(blocks_)) :
    AllBins(blocks_)[i].name_ = AllBins(blocks_)[j].name_ => i = j

\* C37: in a workspace rebuilt from blocks with distinct names whose bins
\* have names unique within their block, no name is declared twice.
C37_NoNameDeclaredTwice ==
  (Rebuilt /\ DistinctNames) =>
    \A name \in DeclaredNames(w_) : TimesDeclared(w_, name) = 1

\* the same when no bin name is used in two blocks either
C37_NoNameTwiceWhenBinNamesDistinct ==
  (Rebuilt /\ DistinctNames /\ DistinctBinNames) =>
    \A name \in DeclaredNames(w_) : TimesDeclared(w_, name) = 1

---------------------------------------------------------------------------
(* C38: the process selection across SYSTEMATIC headers *)

\* line i is a bin line read with a selection made before the header it is
\* under: a PROCESSES line is before it, and a SYSTEMATIC header is between
\* the latest of them and line i
SelectionCarried(words, i) ==
  /\ IsBinLine(words, i)
  /\ ProcessesBefore(words, i) # {}
  /\ \E h \in HeadersBefore(words, i) : h > Latest(ProcessesBefore(words, i))

\* C38: when the file has been read, a bin line under a SYSTEMATIC header
\* that comes after the latest PROCESSES line gives the record of that
\* header an entry for the named bin and every process that PROCESSES line
\* selected, with a strength of a line under that header; and when it is
\* the only line of that bin under the header, the record has entries of
\* that bin for those processes only.
C38_SelectionSurvivesHeader ==
  ReadDone =>
    LET words == FileWords
    IN \A i \in 1..Len(words) :
         SelectionCarried(words, i) =>
           LET k == Cardinality(HeadersBefore(words, i))
           IN /\ k <= Len(free_systematics_)
              /\ \A bin \in ConfiguredBins :
                    bin.name_ = words[i][1] =>
                      /\ \A prc \in SelectedAt(words, i) :
                            /\ HasEntry(free_systematics_[k], bin, prc)
                            /\ free_systematics_[k].strengths_[EntryKey(bin, prc)]
                                 \in {Atof(words[j][2]) : j \in LinesFor(words, k, bin)}
                      /\ LinesFor(words, k, bin) = {i} =>
                            \A prc \in Range(all_prcs) :
                              HasEntry(free_systematics_[k], bin, prc)
                                => prc \in SelectedAt(words, i)

\* a file read to its end in which a selection of some but not all
\* processes is followed by a header and a line of a configured bin, whose
\* record has an entry
C38_Witness ==
  /\ ReadDone
  /\ \E i \in 1..Len(FileWords) :
        /\ SelectionCarried(FileWords, i)
        /\ SelectedAt(FileWords, i) # {}
        /\ SelectedAt(FileWords, i) # Range(all_prcs)
        /\ \E bin \in ConfiguredBins :
              /\ bin.name_ = FileWords[i][1]
              /\ \E prc \in SelectedAt(FileWords, i) :
                    HasEntry(free_systematics_[Cardinality(HeadersBefore(FileWords, i))],
                             bin, prc)

---------------------------------------------------------------------------
(* C39: the luminosity of the shared yield manager during a rebuild *)

\* the total background yield of the block at the luminosity of the
\* generator
TotalAtOwnLuminosity(block) ==
  SumSeq([b \in 1..Len(BinsOf(block)) |->
            Yield(SumYields(luminosity_, backgrounds_,
                            bin_source[BinsOf(block)[b].name_]))])

\* C39: in a rebuilt workspace every BlockYields of a block with at least
\* one bin was made while the shared yield manager had the luminosity of
\* the generator, whatever luminosity it had before the rebuild; so the
\* norm of every such block starts at max(1, total) with the total taken at
\* the luminosity of the generator.
C39_BlockYieldsAtOwnLuminosity ==
  Rebuilt =>
    /\ \A i \in 1..Len(w_.block_yields) :
          w_.block_yields[i].bins >= 1 =>
            w_.block_yields[i].luminosity = luminosity_
    /\ \A block \in Range(blocks_) :
          BinsOf(block) # <<>> =>
            /\ \E i \in 1..Len(w_.block_yields) :
                  w_.block_yields[i].block = block.name_
            /\ \A d \in Declarations(w_, <<"norm">> \o Blk(block)) :
                  d.value = Number(RMax(Rat(1), TotalAtOwnLuminosity(block)))

\* a rebuild at a luminosity other than the one the shared manager was
\* left with, in which BlockYields were made for a block with bins
C39_Witness ==
  /\ Rebuilt
  /\ wg_last.manager_before # luminosity_
  /\ local_lumi_[SharedManager] = luminosity_
  /\ \E i \in 1..Len(w_.block_yields) : w_.block_yields[i].bins >= 1

====
